---------------------------- MODULE Spec2Model ----------------------------
(***************************************************************************)
(* State-machine model of the I/O manager of jaspermate-utils:             *)
(*   - localio.Manager (registry, write queue, batch writes, safe state,   *)
(*     reboot, read/write cycle),                                          *)
(*   - localio.portClient (one serial handle behind a mutex),              *)
(*   - tcp.TCPServer (single peer session, safe state on disconnect),      *)
(*   - the HTTP card handler of main.go.                                   *)
(* Go slices are modelled as sequences; a Go index i is position i+1.      *)
(* float32 values are modelled by the integers they hold (raw units).      *)
(***************************************************************************)
EXTENDS Integers, Sequences, FiniteSets, TLC

VARIABLES
    cards,            \* Manager.cards: id -> Card
    ports,            \* Manager.ports: the paths with an open portClient
    safeStateConfig,  \* Manager.safeStateConfig
    batchOps,         \* argument of the ProcessBatchWrite call under observation
    results,          \* its returned []CommandResult
    frames,           \* bus frames sent by the call under observation, in order
    bpc,              \* position of the ProcessBatchWrite caller
    spc,              \* position of the WriteAllOutputsToSafeState caller
    safeErr,          \* what WriteAllOutputsToSafeState returned (firstErr)
    writeQueue,       \* Manager.writeQueue
    dev,              \* what each device holds: the state a full read returns
    portMu,           \* portClient.mu: the goroutine that holds it
    handlerSlave,     \* the slave id set on the Modbus handler of the port
    wire,             \* the requests outstanding on the port
    sched,            \* the read-write cycle goroutine
    http,             \* the goroutine serving an HTTP card request
    clientConn,       \* TCPServer.clientConn: the session of the peer
    stopped,          \* TCPServer.stopChan is closed
    sessions,         \* the TCP connections and their handleClient goroutines
    safeCalls,        \* WriteAllOutputsToSafeState invocations per session
    afterReboot,      \* per card: what followed the last successful RebootCard
    pwq,              \* the goroutines calling ProcessWriteQueue: position and copy
    events,           \* what was queued, read, written and called back, in order
    processed,        \* every operation handed to ProcessBatchWrite by the queue
    cyc,              \* a ReadAllAndProcessWrites call followed step by step
    stateChangeCallback, \* Manager.stateChangeCallback is not nil
    nextID,           \* Manager.nextID
    adders,           \* the goroutines calling AddCard: position and locals
    command,          \* the WriteCommand.Commands handleClient took from the peer
    response,         \* the WriteResponse sent to the peer for it
    bw,               \* ProcessBatchWrite followed group by group: its locals
    loop,             \* the goroutine of StartCycle: where it is in its loop
    stopChan,         \* Manager.stopChan is closed, and the cycle running when it was
    rebootCall,       \* a RebootCard call followed step by step: position and result
    managers,         \* every Manager made so far: start-up and rediscover requests
    app,              \* App and TCPServer: which manager each holds, and their positions
    regMu,            \* Manager.mu: the goroutine that holds it
    goroutines        \* the goroutines that take the two mutexes: operation and position in it

mgrVars   == <<cards, ports, safeStateConfig>>
batchVars == <<batchOps, results, bpc>>
safeVars  == <<spc, safeErr>>
busVars   == <<portMu, handlerSlave, wire>>
tcpVars   == <<clientConn, stopped, sessions, safeCalls>>
queueVars == <<pwq, events, processed>>
cycleVars == <<cyc, stateChangeCallback>>
registryVars == <<nextID, adders>>
sideVars  == <<command, response, bw, loop, stopChan, rebootCall, managers, app, regMu, goroutines>>
auxVars   == <<queueVars, cycleVars, registryVars, sideVars>>
runVars   == <<writeQueue, dev, busVars, sched, http, tcpVars, afterReboot, auxVars>>
callVars  == <<ports, safeStateConfig, batchVars, frames, safeVars, auxVars>>
vars == <<cards, ports, safeStateConfig, batchOps, results, frames, bpc, spc, safeErr,
          writeQueue, dev, portMu, handlerSlave, wire, sched, http,
          clientConn, stopped, sessions, safeCalls, afterReboot,
          pwq, events, processed, cyc, stateChangeCallback, nextID, adders, command, response, bw, loop, stopChan, rebootCall, managers, app, regMu, goroutines>>

---------------------------------------------------------------------------
(* Bounds of the model *)

\* longest batch handed to ProcessBatchWrite
MaxOps == 3

\* most cards registered when WriteAllOutputsToSafeState is called
MaxSafeCards == 2

\* most TCP connections made to the server in one run
MaxSessions == 1

\* longest write queue: an HTTP write request arrives only below it
MaxQueue == 1

---------------------------------------------------------------------------
(* Data model: models.go, manager.go *)

writeOpDO == 0
writeOpAO == 1
writeOpAOType == 2

\* register address of the AO type of channel 0
AOTypeBase == 400

ModelTable ==
    ( "IO0404" :> [Name |-> "IO0404", DI |-> 0, DO |-> 0, AI |-> 4, AO |-> 4]
   @@ "IO0440" :> [Name |-> "IO0440", DI |-> 0, DO |-> 4, AI |-> 4, AO |-> 0]
   @@ "IO4040" :> [Name |-> "IO4040", DI |-> 4, DO |-> 4, AI |-> 0, AO |-> 0]
   @@ "IO8000" :> [Name |-> "IO8000", DI |-> 8, DO |-> 0, AI |-> 0, AO |-> 0]
   @@ "IO0080" :> [Name |-> "IO0080", DI |-> 0, DO |-> 8, AI |-> 0, AO |-> 0] )

\* the zero value of CardState (a card whose registration read failed)
CardState ==
    [DI |-> <<>>, DO |-> <<>>, AI |-> <<>>, AO |-> <<>>, AOType |-> <<>>,
     SerialNumber |-> "", BaudRate |-> 0, Error |-> ""]

Card(id, slave, module, last, nfr) ==
    [ID |-> id, PortPath |-> "/dev/ttyS7", SlaveID |-> slave, Module |-> module,
     Last |-> last, needsFullRead |-> nfr]

writeOperation(cardID, type, index, value, mode) ==
    [CardID |-> cardID, Type |-> type, Index |-> index, Value |-> value, Mode |-> mode]

\* the zero value of CommandResult
CommandResult == [Index |-> 0, Status |-> "", Message |-> ""]

\* tcp_server.go, WriteCommandItem
WriteCommandItem(type, cardID, index, state, value, mode) ==
    [Type |-> type, CardID |-> cardID, Index |-> index, State |-> state,
     Value |-> value, Mode |-> mode]

\* no ProcessBatchWrite call is between two of its steps
NoBatch == [validOps |-> <<>>, v2o |-> <<>>, order |-> <<>>, g |-> 0, reg |-> <<>>]

\* the goroutine of StartCycle is at its select; k cycles were run before
LoopStart == [pc |-> "select", k |-> 0]

\* Manager.stopChan is open; once closed, k is the number of the cycle that
\* was in progress at the close (0: none was)
StopOpen == [closed |-> FALSE, k |-> 0]

\* no RebootCard call is running; n counts the calls so far, err is what the
\* last one returned
RebootIdle == [pc |-> "idle", id |-> 0, slave |-> 0, err |-> "", n |-> 0]

\* handleClient waits for the next line of the peer
NoCommand == [got |-> FALSE, Commands |-> <<>>]

\* no WriteResponse was sent (the zero value of WriteResponse)
NoResponse == [Type |-> "", Status |-> "", Results |-> <<>>, Message |-> "", FailedIndex |-> 0]

DefaultSafeStateConfig == [DOState |-> FALSE, AOVoltageValue |-> 0, AOCurrentValue |-> 4]

\* the error value meaning "no error" (nil)
NoErr == [card |-> 0, what |-> ""]

\* goroutines that use the port
Proc(kind, id) == [kind |-> kind, id |-> id]
NoProc    == Proc("none", 0)
SchedProc == Proc("cycle", 0)
HttpProc  == Proc("http", 0)
TcpProc(s) == Proc("tcp", s)

\* a Manager as the rediscover specification sees it: its registry, whether
\* a state-change callback is set, its read-write cycle ("none": never started,
\* "select": between two reads, "read": a read is on the bus, "done": the
\* goroutine has returned), whether stopChan is closed, whether it has a
\* portClient for the path, and who holds the mutex of that portClient
Manager(reg, callback, cycle, port) ==
    [cards |-> reg, stateChangeCallback |-> callback, cycle |-> cycle,
     stopChan |-> FALSE, port |-> port, mu |-> NoProc]

\* NewApp: InitializeManager has found the slaves 1 and 3 and started the
\* cycle, and TCPServer.Start has set its callback on that manager
StartManagers ==
    << Manager(( 1 :> Card(1, 1, "IO4040",
                           [CardState EXCEPT !.DI = <<FALSE, FALSE, FALSE, FALSE>>,
                                             !.DO = <<FALSE, FALSE, FALSE, FALSE>>], FALSE)
              @@ 2 :> Card(2, 3, "IO8000",
                           [CardState EXCEPT !.DI = [i \in 1..8 |-> FALSE]], FALSE) ),
               TRUE, "select", TRUE) >>

\* App.localioMgr and TCPServer.localioMgr after NewApp (positions in
\* managers), the rediscover handler (pc, sid: the slave InitializeManager is
\* at, n: requests so far), the peer's handleClient, and what became of the
\* last input change the cycle of App.localioMgr saw
AppStart ==
    [localioMgr |-> 1, tcpMgr |-> 1, pc |-> "idle", sid |-> 0, n |-> 0,
     peer |-> "idle", change |-> "none"]

\* the goroutines that take Manager.mu and portClient.mu
GoProcs == {SchedProc, TcpProc(1), HttpProc}

\* none of them is inside an operation
GoIdle == [t \in GoProcs |-> [op |-> "", at |-> 0]]

\* TCPServer.clientConn = nil
NoConn == 0

\* the cycle goroutine between two cycles
SchedIdle == [pc |-> "idle", cards |-> <<>>, idx |-> 0, readAll |-> FALSE, pending |-> <<>>]

\* no HTTP request is being served
HttpIdle == [pc |-> "idle", req |-> [kind |-> "", card |-> 0, index |-> 0, value |-> 0, mode |-> ""]]

\* a TCP connection that has not been made yet
NoSession == [st |-> "none", calls |-> <<>>, k |-> 0, frame |-> <<>>]

\* the goroutines that may call ProcessWriteQueue: the cycle and one more caller
Drainers == {"cycle", "caller"}

\* a goroutine that is not inside ProcessWriteQueue
DrainerIdle == [pc |-> "idle", queue |-> <<>>]

\* the goroutines that may call AddCard
AddCallers == {"a", "b"}

\* the zero value of ModelSpec
ModelSpec == [Name |-> "", DI |-> 0, DO |-> 0, AI |-> 0, AO |-> 0]

\* a goroutine that is not inside AddCard
AdderIdle == [pc |-> "idle", slave |-> 0, spec |-> ModelSpec, id |-> 0]

\* no ReadAllAndProcessWrites call is running; k counts the calls so far
CycIdle == [pc |-> "idle", cards |-> <<>>, idx |-> 0, hasStateChange |-> FALSE, k |-> 0]

\* an entry of the event log
Event(kind, card, k, ok, data) ==
    [kind |-> kind, card |-> card, k |-> k, ok |-> ok, data |-> data]

\* manager, port and servers right after start-up, before any request; the
\* devices apart
RunIdleButDev ==
    /\ writeQueue = <<>>
    /\ portMu = NoProc
    /\ handlerSlave = 5
    /\ wire = {}
    /\ sched = SchedIdle
    /\ http = HttpIdle
    /\ clientConn = NoConn
    /\ stopped = FALSE
    /\ sessions = [s \in 1..MaxSessions |-> NoSession]
    /\ safeCalls = [s \in 1..MaxSessions |-> 0]
    /\ afterReboot = [c \in DOMAIN cards |-> "none"]
    /\ pwq = [p \in Drainers |-> DrainerIdle]
    /\ events = <<>>
    /\ processed = <<>>
    /\ cyc = CycIdle
    /\ stateChangeCallback = FALSE
    /\ nextID = Cardinality(DOMAIN cards) + 1
    /\ adders = [p \in AddCallers |-> AdderIdle]
    /\ command = NoCommand
    /\ response = NoResponse
    /\ bw = NoBatch
    /\ loop = LoopStart
    /\ stopChan = StopOpen
    /\ rebootCall = RebootIdle
    /\ managers = StartManagers
    /\ app = AppStart
    /\ regMu = NoProc
    /\ goroutines = GoIdle

\* the same, with every device holding what was last read from it
RunIdle ==
    /\ dev = [c \in DOMAIN cards |-> cards[c].Last]
    /\ RunIdleButDev

---------------------------------------------------------------------------
(* Helpers *)

Min(S) == CHOOSE m \in S : \A x \in S : m <= x
Max(S) == CHOOSE m \in S : \A x \in S : m >= x

\* every order in which a Go map of the keys S can be ranged over
Orderings(S) ==
    {s \in [1..Cardinality(S) -> S] : \A i, j \in 1..Cardinality(S) : i # j => s[i] # s[j]}

\* err.Error() of a failed Modbus transaction
BusErr == "modbus: transaction failed"

Frame(card, fc, addr, qty, vals, ok) ==
    [card |-> card.ID, slave |-> card.SlaveID, fc |-> fc, addr |-> addr,
     qty |-> qty, vals |-> vals, ok |-> ok]

---------------------------------------------------------------------------
(* Batch writes: manager.go, ProcessBatchWrite and what it calls *)

\* shouldWrite with the comparison dropped: every operation is written
shouldWriteAlways(op, card) == TRUE

\* shouldWrite: is the requested value different from the cached one
shouldWrite(op, card) ==
    CASE op.Type = writeOpDO ->
            IF op.Index >= 0 /\ op.Index < Len(card.Last.DO)
            THEN card.Last.DO[op.Index + 1] # (op.Value # 0)
            ELSE TRUE
      [] op.Type = writeOpAO ->
            IF op.Index >= 0 /\ op.Index < Len(card.Last.AO)
            THEN card.Last.AO[op.Index + 1] # op.Value
            ELSE TRUE
      [] op.Type = writeOpAOType ->
            IF op.Index >= 0 /\ op.Index < Len(card.Last.AOType)
            THEN card.Last.AOType[op.Index + 1] # op.Mode
            ELSE TRUE
      [] OTHER -> TRUE

\* the validation loop's verdict on ops[i] (Go index i); a valid op that must
\* be written keeps the zero CommandResult
validateOp(reg, op, i) ==
    IF op.CardID \notin DOMAIN reg
    THEN [Index |-> i, Status |-> "error", Message |-> "card not found"]
    ELSE LET card == reg[op.CardID]
             spec == ModelTable[card.Module]
             maxIndex == CASE op.Type = writeOpDO -> spec.DO
                           [] op.Type \in {writeOpAO, writeOpAOType} -> spec.AO
                           [] OTHER -> 0
         IN  IF op.Index < 0 \/ op.Index >= maxIndex
             THEN [Index |-> i, Status |-> "error", Message |-> "index out of range"]
             ELSE IF ~shouldWrite(op, card)
             THEN [Index |-> i, Status |-> "ok", Message |-> "value unchanged, skipped"]
             ELSE CommandResult

\* positions (1-based) of the ops left to write, in batch order
validToOrig(res) ==
    SelectSeq([k \in 1..Len(res) |-> k], LAMBDA k : res[k].Status = "")

\* the key of the group an op belongs to
GroupKey(op) == <<op.CardID, op.Type>>

\* GroupWriteOperations: one WriteGroup per (cardID, registerType), the ops of a
\* group in batch order; the groups come out in the map's iteration order
GroupWriteOperations(ops) ==
    [key \in {GroupKey(ops[k]) : k \in 1..Len(ops)} |->
        [CardID |-> key[1], RegisterType |-> key[2],
         Operations |-> SelectSeq(ops, LAMBDA op : GroupKey(op) = key)]]

\* the result every op of a DO or AO group gets from the group's one frame
groupResults(n, ok) ==
    [i \in 1..n |->
        IF ok THEN [Index |-> i - 1, Status |-> "ok", Message |-> ""]
        ELSE [Index |-> i - 1, Status |-> "error", Message |-> BusErr]]

\* the window without the cache: zero wherever no op writes
windowNoCache(cached, zero, ops, newValues) ==
    LET idxs   == {ops[k].Index : k \in 1..Len(ops)}
        minIdx == Min(idxs)
    IN  [i \in 1..(Max(idxs) - minIdx + 1) |->
            LET hits == {k \in 1..Len(ops) : ops[k].Index = minIdx + i - 1}
            IN  IF hits # {} THEN newValues[Max(hits)] ELSE zero]

\* the window [minIdx, maxIdx]: cached values (zero past the cache's end)
\* overridden by the ops' new values in order, the last op on an index winning
window(cached, zero, ops, newValues) ==
    LET idxs   == {ops[k].Index : k \in 1..Len(ops)}
        minIdx == Min(idxs)
        count  == Max(idxs) - minIdx + 1
    IN  [i \in 1..count |->
            LET idx  == minIdx + i - 1
                hits == {k \in 1..Len(ops) : ops[k].Index = idx}
            IN  IF hits # {} THEN newValues[Max(hits)]
                ELSE IF idx < Len(cached) THEN cached[idx + 1]
                ELSE zero]

\* processBatchDO: one WriteMultipleCoils over the window
processBatchDO(card, ops, ok) ==
    LET minIdx == Min({ops[k].Index : k \in 1..Len(ops)})
        values == window(card.Last.DO, FALSE, ops, [k \in 1..Len(ops) |-> ops[k].Value # 0])
    IN  [results |-> groupResults(Len(ops), ok),
         frames  |-> <<Frame(card, "WriteMultipleCoils", minIdx, Len(values), values, ok)>>]

\* processBatchAO: one WriteMultipleRegisters over the window, two registers
\* per channel
processBatchAO(card, ops, ok) ==
    LET minIdx == Min({ops[k].Index : k \in 1..Len(ops)})
        values == window(card.Last.AO, 0, ops, [k \in 1..Len(ops) |-> ops[k].Value])
    IN  [results |-> groupResults(Len(ops), ok),
         frames  |-> <<Frame(card, "WriteMultipleRegisters", minIdx * 2,
                             Len(values) * 2, values, ok)>>]

\* portClient.writeAOType: the register value written for a mode string
aoTypeCode(mode) == IF mode = "0-10V" THEN 1 ELSE 4

\* processBatchAOType: one WriteSingleRegister per op; oks[i] tells whether
\* the i-th of them succeeded
processBatchAOType(card, ops, oks) ==
    [results |-> [i \in 1..Len(ops) |->
                    IF oks[i] THEN [Index |-> i - 1, Status |-> "ok", Message |-> ""]
                    ELSE [Index |-> i - 1, Status |-> "error", Message |-> BusErr]],
     frames  |-> [i \in 1..Len(ops) |->
                    Frame(card, "WriteSingleRegister", AOTypeBase + ops[i].Index, 1,
                          <<aoTypeCode(ops[i].Mode)>>, oks[i])]]

\* processWriteGroup; nSent frames went out before it in this call, and the
\* k-th frame of the call fails iff k \in fail
processWriteGroup(reg, group, nSent, fail) ==
    IF group.CardID \notin DOMAIN reg
    THEN [results |-> [i \in 1..Len(group.Operations) |->
                        [Index |-> i - 1, Status |-> "error", Message |-> "card not found"]],
          frames |-> <<>>]
    ELSE LET card == reg[group.CardID]
             ops  == group.Operations
         IN  CASE group.RegisterType = writeOpDO ->
                    processBatchDO(card, ops, (nSent + 1) \notin fail)
               [] group.RegisterType = writeOpAO ->
                    processBatchAO(card, ops, (nSent + 1) \notin fail)
               [] OTHER ->
                    processBatchAOType(card, ops,
                        [i \in 1..Len(ops) |-> (nSent + i) \notin fail])

\* the index in validOps that the mapping loop finds for a group's op: the
\* first op with the same card, type and index (0: none)
validIdxOf(validOps, groupOp) ==
    LET same == {k \in 1..Len(validOps) :
                    /\ validOps[k].CardID = groupOp.CardID
                    /\ validOps[k].Type = groupOp.Type
                    /\ validOps[k].Index = groupOp.Index}
    IN  IF same = {} THEN 0 ELSE Min(same)

\* the loop that copies a group's results into the call's results
RECURSIVE mapGroupResults(_, _, _, _, _, _)
mapGroupResults(res, validOps, v2o, gops, gres, j) ==
    IF j > Len(gops) THEN res
    ELSE LET validIdx == validIdxOf(validOps, gops[j])
             res2 == IF validIdx >= 1 /\ validIdx <= Len(v2o)
                     THEN [res EXCEPT ![v2o[validIdx]] =
                              [gres[j] EXCEPT !.Index = v2o[validIdx] - 1]]
                     ELSE res
         IN  mapGroupResults(res2, validOps, v2o, gops, gres, j + 1)

\* the loop over the groups, in the order 'order' of their keys
RECURSIVE processGroups(_, _, _, _, _, _, _, _)
processGroups(reg, groups, order, g, validOps, v2o, acc, fail) ==
    IF g > Len(order) THEN acc
    ELSE LET group == groups[order[g]]
             out   == processWriteGroup(reg, group, Len(acc.frames), fail)
         IN  processGroups(reg, groups, order, g + 1, validOps, v2o,
                 [results |-> mapGroupResults(acc.results, validOps, v2o,
                                              group.Operations, out.results, 1),
                  frames  |-> acc.frames \o out.frames],
                 fail)

\* the ops of a batch that pass validation and are not skipped, in order
validOpsOf(reg, ops) ==
    LET v2o == validToOrig([i \in 1..Len(ops) |-> validateOp(reg, ops[i], i - 1)])
    IN  [k \in 1..Len(v2o) |-> ops[v2o[k]]]

\* the orders in which ProcessBatchWrite may range over the groups of ops
GroupOrders(reg, ops) ==
    Orderings(DOMAIN GroupWriteOperations(validOpsOf(reg, ops)))

\* ProcessBatchWrite(ops) on registry reg: the results and the frames sent
ProcessBatchWrite(reg, ops, order, fail) ==
    LET res0     == [i \in 1..Len(ops) |-> validateOp(reg, ops[i], i - 1)]
        v2o      == validToOrig(res0)
        validOps == [k \in 1..Len(v2o) |-> ops[v2o[k]]]
    IN  IF Len(validOps) = 0 THEN [results |-> res0, frames |-> <<>>]
        ELSE processGroups(reg, GroupWriteOperations(validOps), order, 1,
                           validOps, v2o, [results |-> res0, frames |-> <<>>], fail)


---------------------------------------------------------------------------
(* SpecBatch: one ProcessBatchWrite call on a registry of two cards *)

\* cached states a registered card can hold: the zero state when the
\* registration read failed, else vectors of the model's lengths
IO4040States ==
    {CardState} \cup
    {[CardState EXCEPT !.DI = <<FALSE, FALSE, FALSE, FALSE>>, !.DO = d] :
        d \in {<<FALSE, FALSE, FALSE, FALSE>>, <<TRUE, FALSE, TRUE, FALSE>>}}

IO0404States ==
    {[CardState EXCEPT !.AI = <<0, 0, 0, 0>>, !.AO = <<0, 0, 0, 0>>,
                       !.AOType = <<"4-20mA", "0-10V", "4-20mA", "4-20mA">>]}

BatchRegistries ==
    {(1 :> Card(1, 1, "IO4040", s1, FALSE) @@ 2 :> Card(2, 2, "IO0404", s2, FALSE)) :
        s1 \in IO4040States, s2 \in IO0404States}

\* the ops a caller may put in a batch: card 1 and 2 are registered, 3 is not
BatchOpSet ==
    {writeOperation(1, writeOpDO, 1, v, "") : v \in {0, 1}}
    \cup {writeOperation(1, writeOpDO, i, 1, "") : i \in {0, 3, 4}}
    \cup {writeOperation(2, writeOpAO, 0, 4000, "")}
    \cup {writeOperation(2, writeOpAO, 2, v, "") : v \in {0, 4000}}
    \cup {writeOperation(2, writeOpAOType, 1, 0, m) : m \in {"0-10V", "4-20mA"}}
    \cup {writeOperation(3, writeOpDO, 0, 1, "")}

Batches == UNION {[1..n -> BatchOpSet] : n \in 0..MaxOps}

InitBatch ==
    /\ cards \in BatchRegistries
    /\ ports = {"/dev/ttyS7"}
    /\ safeStateConfig = DefaultSafeStateConfig
    /\ batchOps \in Batches
    /\ results = <<>>
    /\ frames = <<>>
    /\ bpc = "call"
    /\ spc = "idle"
    /\ safeErr = NoErr
    /\ RunIdle

\* a front end calls ProcessBatchWrite(batchOps) and gets the results
BatchWrite ==
    /\ bpc = "call"
    /\ \E order \in GroupOrders(cards, batchOps),
          fail \in SUBSET (1..Len(validOpsOf(cards, batchOps))) :
          LET out == ProcessBatchWrite(cards, batchOps, order, fail)
          IN  /\ results' = out.results
              /\ frames' = out.frames
    /\ bpc' = "done"
    /\ UNCHANGED <<mgrVars, batchOps, safeVars, runVars>>

NextBatch == BatchWrite

SpecBatch == InitBatch /\ [][NextBatch]_vars

---------------------------------------------------------------------------
(* Safe state: manager.go, WriteAllOutputsToSafeState *)

\* safeAOValues with the AO type ignored: every channel gets the voltage value
safeAOValuesVoltage(card, cfg) ==
    [i \in 1..ModelTable[card.Module].AO |-> cfg.AOVoltageValue * 1000]

\* the AO value written to each channel of a card: by its cached AO type
safeAOValues(card, cfg) ==
    [i \in 1..ModelTable[card.Module].AO |->
        IF i <= Len(card.Last.AOType) /\ card.Last.AOType[i] = "4-20mA"
        THEN cfg.AOCurrentValue * 1000
        ELSE cfg.AOVoltageValue * 1000]

\* safeDOValues with the configuration ignored: every coil is switched off
safeDOValuesOff(card, cfg) ==
    [i \in 1..ModelTable[card.Module].DO |-> FALSE]

\* the DO value written to each coil of a card
safeDOValues(card, cfg) ==
    [i \in 1..ModelTable[card.Module].DO |-> cfg.DOState]

\* firstErr after one more attempt: the first failure is kept
keepFirst(firstErr, ok, card, what) ==
    IF firstErr = NoErr /\ ~ok THEN [card |-> card.ID, what |-> what] ELSE firstErr

\* the body of the loop for one card, after acc = [frames, firstErr]; the
\* k-th frame of the call fails iff k \in fail
safeStateCard(card, cfg, open, connectOk, acc, fail) ==
    IF ~(card.PortPath \in open \/ connectOk)
    THEN [frames |-> acc.frames, firstErr |-> keepFirst(acc.firstErr, FALSE, card, "port")]
    ELSE LET spec  == ModelTable[card.Module]
             okDO  == (Len(acc.frames) + 1) \notin fail
             accDO == IF spec.DO > 0
                      THEN [frames |-> Append(acc.frames,
                                Frame(card, "WriteMultipleCoils", 0, spec.DO,
                                      safeDOValues(card, cfg), okDO)),
                            firstErr |-> keepFirst(acc.firstErr, okDO, card, "DO")]
                      ELSE acc
             okAO  == (Len(accDO.frames) + 1) \notin fail
         IN  IF spec.AO > 0
             THEN [frames |-> Append(accDO.frames,
                        Frame(card, "WriteMultipleRegisters", 0, spec.AO * 2,
                              safeAOValues(card, cfg), okAO)),
                   firstErr |-> keepFirst(accDO.firstErr, okAO, card, "AO")]
             ELSE accDO

RECURSIVE safeStateLoop(_, _, _, _, _, _, _, _)

\* safeStateLoop that gives up at the first failure
safeStateLoopStop(reg, cfg, open, connectOk, order, n, acc, fail) ==
    IF n > Len(order) \/ acc.firstErr # NoErr THEN acc
    ELSE safeStateLoop(reg, cfg, open, connectOk, order, n + 1,
             safeStateCard(reg[order[n]], cfg, open, connectOk, acc, fail), fail)

\* the loop over the snapshot of the cards, ranged over in the order 'order'
safeStateLoop(reg, cfg, open, connectOk, order, n, acc, fail) ==
    IF n > Len(order) THEN acc
    ELSE safeStateLoop(reg, cfg, open, connectOk, order, n + 1,
             safeStateCard(reg[order[n]], cfg, open, connectOk, acc, fail), fail)

\* WriteAllOutputsToSafeState: the frames sent and the error returned
WriteAllOutputsToSafeState(reg, cfg, open, connectOk, order, fail) ==
    safeStateLoop(reg, cfg, open, connectOk, order, 1,
                  [frames |-> <<>>, firstErr |-> NoErr], fail)

---------------------------------------------------------------------------
(* SpecSafe: one WriteAllOutputsToSafeState call on a registry of up to
   MaxSafeCards cards *)

\* cached AO types of an IO0404: none (the AO type read failed), the two
\* modes, or the hex text of an unknown code
AOTypeCaches ==
    {<<>>,
     <<"4-20mA", "0-10V", "4-20mA", "4-20mA">>,
     <<"0x0002", "4-20mA", "0-10V", "0-10V">>}

\* what a registered card of a module may look like: the bus answers from
\* slave 2 on, so card i is slave i+1
SafeCards(id) ==
    {Card(id, id + 1, m, CardState, FALSE) : m \in DOMAIN ModelTable}
    \cup {Card(id, id + 1, "IO0404", [CardState EXCEPT !.AOType = t], FALSE) :
            t \in AOTypeCaches}

SafeRegistries ==
    UNION {{r \in [1..n -> UNION {SafeCards(id) : id \in 1..n}] :
               \A id \in 1..n : r[id] \in SafeCards(id)} : n \in 0..MaxSafeCards}

\* the configuration is a record fixed at build time: the default one and an
\* edited one
SafeStateConfigs ==
    {DefaultSafeStateConfig,
     [DOState |-> TRUE, AOVoltageValue |-> 2, AOCurrentValue |-> 12]}

InitSafe ==
    /\ cards \in SafeRegistries
    /\ ports = {"/dev/ttyS7"}
    /\ safeStateConfig \in SafeStateConfigs
    /\ batchOps = <<>>
    /\ results = <<>>
    /\ frames = <<>>
    /\ bpc = "idle"
    /\ spc = "call"
    /\ safeErr = NoErr
    /\ RunIdle

\* the TCP server (or the API) calls WriteAllOutputsToSafeState
SafeState ==
    /\ spc = "call"
    /\ \E order \in Orderings(DOMAIN cards),
          fail \in SUBSET (1..Cardinality(DOMAIN cards)),
          connectOk \in (IF \A c \in DOMAIN cards : cards[c].PortPath \in ports
                         THEN {TRUE} ELSE BOOLEAN) :
          LET out == WriteAllOutputsToSafeState(cards, safeStateConfig, ports,
                                                connectOk, order, fail)
          IN  /\ frames' = out.frames
              /\ safeErr' = out.firstErr
              /\ ports' = IF connectOk THEN ports \cup {cards[c].PortPath : c \in DOMAIN cards}
                          ELSE ports
    /\ spc' = "done"
    /\ UNCHANGED <<cards, safeStateConfig, batchVars, runVars>>

NextSafe == SafeState

SpecSafe == InitSafe /\ [][NextSafe]_vars

---------------------------------------------------------------------------
(* The port: port.go.  Every operation of portClient locks pc.mu, sets the
   slave id on the handler and keeps the mutex until it returns *)

\* sync.Mutex.Lock with the wait dropped: it returns at once
muFreeAlways(mu) == TRUE

\* sync.Mutex.Lock returns once nobody holds the mutex
muFree(mu) == mu = NoProc

\* pc.mu.Lock(); setSlaveID(pc.handler, slave); the request goes out
portBegin(p, slave) ==
    /\ muFree(portMu)
    /\ portMu' = p
    /\ handlerSlave' = slave
    /\ wire' = wire \cup {[proc |-> p, slave |-> slave]}

\* the answer (or the timeout) is in; the deferred pc.mu.Unlock()
portEnd(p) ==
    /\ portMu' = NoProc
    /\ wire' = {r \in wire : r.proc # p}
    /\ UNCHANGED handlerSlave

\* what readCard returns when no sub-read fails
readCard(d, readAll) ==
    IF readAll THEN d
    ELSE [d EXCEPT !.AOType = <<>>, !.SerialNumber = "", !.BaudRate = 0]

\* the failing branch replaced: a failed read stores the zero state and the error
mergeReadZero(last, state, ok, readAll) ==
    IF ~ok THEN [CardState EXCEPT !.Error = BusErr]
    ELSE IF readAll THEN state
    ELSE [state EXCEPT !.SerialNumber = last.SerialNumber, !.AOType = last.AOType]

\* what ReadAllAndProcessWrites stores in c.Last after pc.readCard returned
mergeRead(last, state, ok, readAll) ==
    IF ~ok THEN [last EXCEPT !.Error = BusErr]
    ELSE IF readAll THEN state
    ELSE [state EXCEPT !.SerialNumber = last.SerialNumber, !.AOType = last.AOType]

\* the device after a frame it acknowledged
applyFrame(d, f) ==
    CASE f.fc = "WriteMultipleCoils" ->
            [d EXCEPT !.DO = [i \in 1..Len(d.DO) |->
                IF i > f.addr /\ i <= f.addr + f.qty THEN f.vals[i - f.addr] ELSE d.DO[i]]]
      [] f.fc = "WriteMultipleRegisters" ->
            [d EXCEPT !.AO = [i \in 1..Len(d.AO) |->
                IF 2 * (i - 1) >= f.addr /\ 2 * (i - 1) < f.addr + f.qty
                THEN f.vals[i - (f.addr \div 2)] ELSE d.AO[i]]]
      [] f.fc = "WriteSingleRegister" /\ f.addr >= AOTypeBase ->
            [d EXCEPT !.AOType = [i \in 1..Len(d.AOType) |->
                IF i = f.addr - AOTypeBase + 1
                THEN (IF f.vals[1] = 1 THEN "0-10V" ELSE "4-20mA") ELSE d.AOType[i]]]
      [] OTHER -> d

---------------------------------------------------------------------------
(* The read-write cycle: manager.go, StartCycle, ReadAllAndProcessWrites,
   ProcessWriteQueue.  DI and AI do not change in this model, so
   detectStateChange finds nothing and the callback is not called *)

\* the ids of S in ascending order (sort.Slice by id)
SortedIds(S) ==
    CHOOSE q \in Orderings(S) : \A i \in 1..(Len(q) - 1) : q[i] < q[i + 1]

\* the card the cycle is at
schedCard == sched.cards[sched.idx]

\* on to the next card of the snapshot, or the cycle is over
schedNext(s) ==
    IF s.idx < Len(s.cards)
    THEN [s EXCEPT !.pc = "flag", !.idx = @ + 1, !.readAll = FALSE, !.pending = <<>>]
    ELSE SchedIdle

\* ReadAllAndProcessWrites starts: the snapshot of the cards, sorted by id
CycleStart ==
    /\ sched.pc = "idle"
    /\ sched' = [SchedIdle EXCEPT !.pc = "flag", !.cards = SortedIds(DOMAIN cards), !.idx = 1]
    /\ UNCHANGED <<cards, callVars, writeQueue, dev, busVars, http, tcpVars, afterReboot>>

\* under m.mu: readAll := c.needsFullRead, and the flag is cleared
SchedCheckFlag ==
    /\ sched.pc = "flag"
    /\ sched' = [sched EXCEPT !.pc = "read", !.readAll = cards[schedCard].needsFullRead]
    /\ cards' = [cards EXCEPT ![schedCard].needsFullRead = FALSE]
    /\ UNCHANGED <<callVars, writeQueue, dev, busVars, http, tcpVars, afterReboot>>

\* pc.readCard takes the port
SchedReadBegin ==
    /\ sched.pc = "read"
    /\ portBegin(SchedProc, cards[schedCard].SlaveID)
    /\ sched' = [sched EXCEPT !.pc = "reading"]
    /\ UNCHANGED <<cards, callVars, writeQueue, dev, http, tcpVars, afterReboot>>

\* pc.readCard returns; the state is merged into c.Last, or only the error
SchedReadEnd ==
    /\ sched.pc = "reading"
    /\ portEnd(SchedProc)
    /\ \E ok \in BOOLEAN :
          LET c     == schedCard
              state == readCard(dev[c], sched.readAll)
          IN  /\ cards' = [cards EXCEPT ![c].Last =
                                  mergeRead(cards[c].Last, state, ok, sched.readAll)]
              /\ afterReboot' =
                    IF ok /\ afterReboot[c] = "returned"
                    THEN [afterReboot EXCEPT ![c] = IF sched.readAll THEN "none" ELSE "fast"]
                    ELSE afterReboot
    /\ sched' = [sched EXCEPT !.pc = "queue"]
    /\ UNCHANGED <<callVars, writeQueue, dev, http, tcpVars>>

\* ProcessWriteQueue takes the queue; ProcessBatchWrite validates, elides
\* and groups it, which fixes the frames to send
SchedTakeQueue ==
    /\ sched.pc = "queue"
    /\ writeQueue' = <<>>
    /\ \E order \in GroupOrders(cards, writeQueue) :
          LET out == ProcessBatchWrite(cards, writeQueue, order, {})
          IN  sched' = IF out.frames = <<>> THEN schedNext(sched)
                       ELSE [sched EXCEPT !.pc = "write", !.pending = out.frames]
    /\ UNCHANGED <<cards, callVars, dev, busVars, http, tcpVars, afterReboot>>

\* the next write of the batch takes the port
SchedWriteBegin ==
    /\ sched.pc = "write"
    /\ portBegin(SchedProc, Head(sched.pending).slave)
    /\ sched' = [sched EXCEPT !.pc = "writing"]
    /\ UNCHANGED <<cards, callVars, writeQueue, dev, http, tcpVars, afterReboot>>

\* the write returns
SchedWriteEnd ==
    /\ sched.pc = "writing"
    /\ portEnd(SchedProc)
    /\ \E ok \in BOOLEAN :
          LET f == Head(sched.pending)
          IN  dev' = IF ok THEN [dev EXCEPT ![f.card] = applyFrame(@, f)] ELSE dev
    /\ sched' = IF Len(sched.pending) > 1
                THEN [sched EXCEPT !.pc = "write", !.pending = Tail(@)]
                ELSE schedNext(sched)
    /\ UNCHANGED <<cards, callVars, writeQueue, http, tcpVars, afterReboot>>

---------------------------------------------------------------------------
(* The HTTP card handler: main.go, localIOCardHandler; manager.go,
   QueueWriteDO, QueueWriteAO, QueueWriteAOType, RebootCard *)

\* the requests a front-end sends
HttpRequests ==
    {[kind |-> "write-do", card |-> 1, index |-> 0, value |-> 1, mode |-> ""],
     [kind |-> "write-aotype", card |-> 3, index |-> 1, value |-> 0, mode |-> "4-20mA"],
     [kind |-> "reboot", card |-> 1, index |-> 0, value |-> 0, mode |-> ""]}

\* the operation QueueWriteDO / QueueWriteAO / QueueWriteAOType appends
queuedOp(req) ==
    CASE req.kind = "write-do" -> writeOperation(req.card, writeOpDO, req.index, req.value, "")
      [] req.kind = "write-ao" -> writeOperation(req.card, writeOpAO, req.index, req.value, "")
      [] OTHER -> writeOperation(req.card, writeOpAOType, req.index, 0, req.mode)

\* the index check of QueueWriteDO / QueueWriteAO / QueueWriteAOType
indexInRange(req) ==
    LET spec == ModelTable[cards[req.card].Module]
    IN  req.index >= 0 /\ req.index < (IF req.kind = "write-do" THEN spec.DO ELSE spec.AO)

\* a request reaches localIOCardHandler
HttpArrive ==
    /\ http.pc = "idle"
    /\ \E req \in HttpRequests :
          /\ req.kind # "reboot" => Len(writeQueue) < MaxQueue
          /\ http' = [pc |-> "check", req |-> req]
    /\ UNCHANGED <<cards, callVars, writeQueue, dev, busVars, sched, tcpVars, afterReboot>>

\* the handler asks tcpServer.IsConnected(): when a peer is connected the
\* answer is 503 and the handler returns
HttpCheck ==
    /\ http.pc = "check"
    /\ http' = IF clientConn # NoConn THEN HttpIdle ELSE [http EXCEPT !.pc = "handle"]
    /\ UNCHANGED <<cards, callVars, writeQueue, dev, busVars, sched, tcpVars, afterReboot>>

\* GetCard finds no such card: the answer is 404
HttpNotFound ==
    /\ http.pc = "handle"
    /\ http.req.card \notin DOMAIN cards
    /\ http' = HttpIdle
    /\ UNCHANGED <<cards, callVars, writeQueue, dev, busVars, sched, tcpVars, afterReboot>>

\* QueueWriteDO / QueueWriteAO / QueueWriteAOType: the answer is 500 when
\* the index is out of range, else the operation is appended: 200
HttpQueueWrite ==
    /\ http.pc = "handle"
    /\ http.req.card \in DOMAIN cards
    /\ http.req.kind # "reboot"
    /\ writeQueue' = IF indexInRange(http.req) THEN Append(writeQueue, queuedOp(http.req))
                     ELSE writeQueue
    /\ http' = HttpIdle
    /\ UNCHANGED <<cards, callVars, dev, busVars, sched, tcpVars, afterReboot>>

\* RebootCard, under m.mu: the card is found and needsFullRead is set
HttpRebootFlag ==
    /\ http.pc = "handle"
    /\ http.req.card \in DOMAIN cards
    /\ http.req.kind = "reboot"
    /\ cards' = [cards EXCEPT ![http.req.card].needsFullRead = TRUE]
    /\ http' = [http EXCEPT !.pc = "reboot"]
    /\ UNCHANGED <<callVars, writeQueue, dev, busVars, sched, tcpVars, afterReboot>>

\* pc.reboot takes the port
HttpRebootBegin ==
    /\ http.pc = "reboot"
    /\ portBegin(HttpProc, cards[http.req.card].SlaveID)
    /\ http' = [http EXCEPT !.pc = "rebooting"]
    /\ UNCHANGED <<cards, callVars, writeQueue, dev, sched, tcpVars, afterReboot>>

\* pc.reboot returns and so does RebootCard: the answer is 200, or 500 on
\* an error
HttpRebootEnd ==
    /\ http.pc = "rebooting"
    /\ portEnd(HttpProc)
    /\ \E ok \in BOOLEAN :
          /\ http' = HttpIdle
          /\ afterReboot' = IF ok THEN [afterReboot EXCEPT ![http.req.card] = "returned"]
                            ELSE afterReboot
    /\ UNCHANGED <<cards, callVars, writeQueue, dev, sched, tcpVars>>

---------------------------------------------------------------------------
(* The TCP server: tcp_server.go, acceptLoop, handleClient, Stop; the safe
   state it asks for, frame by frame: manager.go, WriteAllOutputsToSafeState.
   The write commands of the peer (processWriteCommand) are not modelled
   here: a session is open until the peer or Stop closes it *)

\* the writes one safe-state call makes, ranging over the cards in 'order'
safeCallsOf(reg, order) ==
    LET RECURSIVE go(_)
        go(n) == IF n > Len(order) THEN <<>>
                 ELSE LET spec == ModelTable[reg[order[n]].Module]
                      IN  (IF spec.DO > 0 THEN <<[card |-> order[n], kind |-> "DO"]>> ELSE <<>>)
                          \o (IF spec.AO > 0 THEN <<[card |-> order[n], kind |-> "AO"]>> ELSE <<>>)
                          \o go(n + 1)
    IN  go(1)

\* the frame of one safe-state write, built from the card as it is now
safeFrame(card, kind, cfg) ==
    IF kind = "DO"
    THEN Frame(card, "WriteMultipleCoils", 0, ModelTable[card.Module].DO,
               safeDOValues(card, cfg), TRUE)
    ELSE Frame(card, "WriteMultipleRegisters", 0, ModelTable[card.Module].AO * 2,
               safeAOValues(card, cfg), TRUE)

\* acceptLoop: a connection arrives; it is closed at once when a peer is
\* connected, else it becomes the peer and handleClient starts
TcpAccept ==
    /\ ~stopped
    /\ \E s \in DOMAIN sessions :
          /\ sessions[s].st = "none"
          /\ \A t \in 1..(s - 1) : sessions[t].st # "none"
          /\ IF clientConn # NoConn
             THEN /\ sessions' = [sessions EXCEPT ![s].st = "rejected"]
                  /\ UNCHANGED clientConn
             ELSE /\ sessions' = [sessions EXCEPT ![s].st = "open"]
                  /\ clientConn' = s
    /\ UNCHANGED <<cards, callVars, writeQueue, dev, busVars, sched, http, stopped,
                   safeCalls, afterReboot>>

\* the peer closes its connection (or the read fails): scanner.Scan ends
PeerClose(s) ==
    /\ sessions[s].st = "open"
    /\ sessions' = [sessions EXCEPT ![s].st = "ended"]
    /\ UNCHANGED <<cards, callVars, writeQueue, dev, busVars, sched, http, clientConn,
                   stopped, safeCalls, afterReboot>>

\* Stop: the listener and the peer's connection are closed, clientConn = nil
Stop ==
    /\ ~stopped
    /\ stopped' = TRUE
    /\ clientConn' = NoConn
    /\ sessions' = IF clientConn # NoConn
                   THEN [sessions EXCEPT ![clientConn].st = "ended"]
                   ELSE sessions
    /\ UNCHANGED <<cards, callVars, writeQueue, dev, busVars, sched, http, safeCalls,
                   afterReboot>>

\* handleClient returns, its deferred function runs: wasConnected is
\* clientConn == this session; if so clientConn = nil and the safe state
\* is due
HandleClientExit(s) ==
    /\ sessions[s].st = "ended"
    /\ LET wasConnected == clientConn = s
       IN  /\ clientConn' = IF wasConnected THEN NoConn ELSE clientConn
           /\ sessions' = [sessions EXCEPT ![s].st = IF wasConnected THEN "safecall"
                                                     ELSE "closed"]
    /\ UNCHANGED <<cards, callVars, writeQueue, dev, busVars, sched, http, stopped,
                   safeCalls, afterReboot>>

\* WriteAllOutputsToSafeState is called: the snapshot of the cards
SafeStateCall(s) ==
    /\ sessions[s].st = "safecall"
    /\ safeCalls' = [safeCalls EXCEPT ![s] = @ + 1]
    /\ \E order \in Orderings(DOMAIN cards) :
          LET calls == safeCallsOf(cards, order)
          IN  sessions' = [sessions EXCEPT ![s] =
                  IF calls = <<>> THEN [NoSession EXCEPT !.st = "closed"]
                  ELSE [st |-> "safe", calls |-> calls, k |-> 1, frame |-> <<>>]]
    /\ UNCHANGED <<cards, callVars, writeQueue, dev, busVars, sched, http, clientConn,
                   stopped, afterReboot>>

\* the values of the next write are built and writeMultipleDO /
\* writeMultipleAO takes the port
SafeWriteBegin(s) ==
    /\ sessions[s].st = "safe"
    /\ LET call == sessions[s].calls[sessions[s].k]
           f    == safeFrame(cards[call.card], call.kind, safeStateConfig)
       IN  /\ portBegin(TcpProc(s), f.slave)
           /\ sessions' = [sessions EXCEPT ![s].st = "safewrite", ![s].frame = <<f>>]
    /\ UNCHANGED <<cards, callVars, writeQueue, dev, sched, http, clientConn,
                   stopped, safeCalls, afterReboot>>

\* the write returns; after the last one handleClient is over
SafeWriteEnd(s) ==
    /\ sessions[s].st = "safewrite"
    /\ portEnd(TcpProc(s))
    /\ \E ok \in BOOLEAN :
          LET f == sessions[s].frame[1]
          IN  dev' = IF ok THEN [dev EXCEPT ![f.card] = applyFrame(@, f)] ELSE dev
    /\ sessions' = [sessions EXCEPT ![s] =
            IF @.k < Len(@.calls)
            THEN [@ EXCEPT !.st = "safe", !.k = @ + 1, !.frame = <<>>]
            ELSE [NoSession EXCEPT !.st = "closed"]]
    /\ UNCHANGED <<cards, callVars, writeQueue, http, sched, clientConn,
                   stopped, safeCalls, afterReboot>>

---------------------------------------------------------------------------
(* Spec: the running program *)

\* the devices found at start-up: slave 1 is an IO4040, slave 3 an IO8000
RunDevices ==
    ( 1 :> [CardState EXCEPT !.DI = <<FALSE, FALSE, FALSE, FALSE>>,
                             !.DO = <<FALSE, FALSE, FALSE, FALSE>>,
                             !.SerialNumber = "SN1", !.BaudRate = 9600]
   @@ 2 :> [CardState EXCEPT !.DI = [i \in 1..8 |-> FALSE],
                             !.SerialNumber = "SN2", !.BaudRate = 9600] )

\* InitializeManager has registered both (AddCard read them in full),
\* started the cycle, and the TCP server listens
Init ==
    /\ cards = ( 1 :> Card(1, 1, "IO4040", RunDevices[1], FALSE)
              @@ 2 :> Card(2, 3, "IO8000", RunDevices[2], FALSE) )
    /\ ports = {"/dev/ttyS7"}
    /\ safeStateConfig = DefaultSafeStateConfig
    /\ batchOps = <<>>
    /\ results = <<>>
    /\ frames = <<>>
    /\ bpc = "idle"
    /\ spc = "idle"
    /\ safeErr = NoErr
    /\ RunIdle

Next ==
    \/ CycleStart
    \/ SchedCheckFlag
    \/ SchedReadBegin
    \/ SchedReadEnd
    \/ SchedTakeQueue
    \/ SchedWriteBegin
    \/ SchedWriteEnd
    \/ HttpArrive
    \/ HttpCheck
    \/ HttpNotFound
    \/ HttpQueueWrite
    \/ HttpRebootFlag
    \/ HttpRebootBegin
    \/ HttpRebootEnd
    \/ TcpAccept
    \/ Stop
    \/ \E s \in 1..MaxSessions :
          \/ PeerClose(s)
          \/ HandleClientExit(s)
          \/ SafeStateCall(s)
          \/ SafeWriteBegin(s)
          \/ SafeWriteEnd(s)

Spec == Init /\ [][Next]_vars

---------------------------------------------------------------------------
(* Properties of ProcessBatchWrite, checked under SpecBatch *)

\* the op addresses a registered card and a channel its model has
ValidOp(op) ==
    /\ op.CardID \in DOMAIN cards
    /\ op.Index >= 0
    /\ op.Index < (IF op.Type = writeOpDO THEN ModelTable[cards[op.CardID].Module].DO
                   ELSE ModelTable[cards[op.CardID].Module].AO)

\* the op asks for the value the card's cache already holds
EqualsCached(op) ==
    /\ ValidOp(op)
    /\ LET last == cards[op.CardID].Last
       IN  CASE op.Type = writeOpDO ->
                   op.Index < Len(last.DO) /\ last.DO[op.Index + 1] = (op.Value # 0)
             [] op.Type = writeOpAO ->
                   op.Index < Len(last.AO) /\ last.AO[op.Index + 1] = op.Value
             [] OTHER ->
                   op.Index < Len(last.AOType) /\ last.AOType[op.Index + 1] = op.Mode

\* frame f writes the channel op addresses
Covers(f, op) ==
    /\ f.card = op.CardID
    /\ CASE op.Type = writeOpDO ->
               f.fc = "WriteMultipleCoils" /\ f.addr <= op.Index /\ op.Index < f.addr + f.qty
         [] op.Type = writeOpAO ->
               /\ f.fc = "WriteMultipleRegisters"
               /\ f.addr <= 2 * op.Index /\ 2 * op.Index + 1 < f.addr + f.qty
         [] OTHER ->
               f.fc = "WriteSingleRegister" /\ f.addr = AOTypeBase + op.Index

\* positions of the valid ops of card c and kind t that change the cached value
ToWrite(c, t) ==
    {i \in 1..Len(batchOps) :
        /\ batchOps[i].CardID = c /\ batchOps[i].Type = t
        /\ ValidOp(batchOps[i]) /\ ~EqualsCached(batchOps[i])}

\* C1: after ProcessBatchWrite(ops) the result array has exactly len(ops)
\* entries, results[i].Index = i for every i, and each entry describes ops[i]
\* (it carries the status of that op).
C1_ResultsIndexed ==
    bpc = "done" =>
        /\ Len(results) = Len(batchOps)
        /\ \A i \in 1..Len(results) :
              results[i].Index = i - 1 /\ results[i].Status \in {"ok", "error"}

C3_OneFramePerGroup ==
    bpc = "done" =>
        \A c \in DOMAIN cards :
            \A t \in {writeOpDO, writeOpAO} :
                LET G    == ToWrite(c, t)
                    idxs == {batchOps[i].Index : i \in G}
                    regs == IF t = writeOpDO THEN 1 ELSE 2
                    F    == {k \in 1..Len(frames) :
                                /\ frames[k].card = c
                                /\ frames[k].fc = (IF t = writeOpDO THEN "WriteMultipleCoils"
                                                   ELSE "WriteMultipleRegisters")}
                IN  G # {} =>
                        /\ Cardinality(F) = 1
                        /\ \A k \in F :
                              /\ frames[k].addr = Min(idxs) * regs
                              /\ frames[k].qty = (Max(idxs) - Min(idxs) + 1) * regs
                              /\ \A i \in G :
                                    results[i].Status =
                                        (IF frames[k].ok THEN "ok" ELSE "error")

---------------------------------------------------------------------------
(* Properties of WriteAllOutputsToSafeState, checked under SpecSafe *)

\* the frames of a call that carry function fc to the slave of card c
FramesTo(c, fc) ==
    {k \in 1..Len(frames) : frames[k].slave = cards[c].SlaveID /\ frames[k].fc = fc}

\* C5: a safe-state call sends, for every registered card with DO > 0,
\* exactly one WriteMultipleCoils frame to that card's slave, starting at
\* coil 0, with quantity the card's DO count and every bit equal to the
\* configured DOState.
C5_SafeDO ==
    spc = "done" =>
        \A c \in DOMAIN cards :
            LET n == ModelTable[cards[c].Module].DO
                S == FramesTo(c, "WriteMultipleCoils")
            IN  n > 0 =>
                    /\ Cardinality(S) = 1
                    /\ \A k \in S :
                          /\ frames[k].addr = 0
                          /\ frames[k].qty = n
                          /\ Len(frames[k].vals) = n
                          /\ \A i \in 1..n : frames[k].vals[i] = safeStateConfig.DOState

\* C5 witness: a call has switched the 8 coils of an IO0080 on, the
\* configured DOState being TRUE
C5_Witness ==
    /\ spc = "done"
    /\ safeStateConfig.DOState
    /\ \E c \in DOMAIN cards :
          /\ cards[c].Module = "IO0080"
          /\ \E k \in FramesTo(c, "WriteMultipleCoils") :
                frames[k].qty = 8 /\ \A i \in 1..8 : frames[k].vals[i]

\* the AO value the safe state has for channel i (1-based) of card c
SafeAOValue(c, i) ==
    IF i <= Len(cards[c].Last.AOType) /\ cards[c].Last.AOType[i] = "4-20mA"
    THEN safeStateConfig.AOCurrentValue * 1000
    ELSE safeStateConfig.AOVoltageValue * 1000

\* C6: a safe-state call sends, for every registered card with AO > 0,
\* exactly one WriteMultipleRegisters frame at the AO base in which channel
\* i carries AOCurrentValue*1000 when the cached aoType[i] is "4-20mA" and
\* AOVoltageValue*1000 otherwise (also when the cached aoType is empty or an
\* unknown code); with the default configuration a card whose channels are
\* 4-20mA, 0-10V, 4-20mA, 4-20mA receives 4000, 0, 4000, 4000.
C6_SafeAO ==
    spc = "done" =>
        \A c \in DOMAIN cards :
            LET n == ModelTable[cards[c].Module].AO
                S == FramesTo(c, "WriteMultipleRegisters")
            IN  n > 0 =>
                    /\ Cardinality(S) = 1
                    /\ \A k \in S :
                          /\ frames[k].addr = 0
                          /\ frames[k].qty = 2 * n
                          /\ Len(frames[k].vals) = n
                          /\ \A i \in 1..n : frames[k].vals[i] = SafeAOValue(c, i)
                          /\ (/\ safeStateConfig = DefaultSafeStateConfig
                              /\ cards[c].Last.AOType = <<"4-20mA", "0-10V", "4-20mA", "4-20mA">>)
                             => frames[k].vals = <<4000, 0, 4000, 4000>>

\* C6 witness: under the default configuration a call has written 4000, 0,
\* 4000, 4000 to a card whose channels are 4-20mA, 0-10V, 4-20mA, 4-20mA,
\* and four times 0 to a card with no cached aoType
C6_Witness ==
    /\ spc = "done"
    /\ safeStateConfig = DefaultSafeStateConfig
    /\ \E c \in DOMAIN cards :
          /\ cards[c].Last.AOType = <<"4-20mA", "0-10V", "4-20mA", "4-20mA">>
          /\ \E k \in FramesTo(c, "WriteMultipleRegisters") :
                frames[k].vals = <<4000, 0, 4000, 4000>>
    /\ \E c \in DOMAIN cards :
          /\ cards[c].Module = "IO0404"
          /\ cards[c].Last.AOType = <<>>
          /\ \E k \in FramesTo(c, "WriteMultipleRegisters") :
                frames[k].vals = <<0, 0, 0, 0>>

\* C7: a safe-state call attempts the DO and the AO write of every
\* registered card even when the port lookup or a write for an earlier card
\* fails; it returns an error exactly when at least one attempt failed, and
\* the error is that of the first failed attempt.
C7_AllAttempted ==
    spc = "done" =>
        LET failed == {k \in 1..Len(frames) : ~frames[k].ok}
        IN  /\ \A c \in DOMAIN cards :
                  /\ ModelTable[cards[c].Module].DO > 0
                        => FramesTo(c, "WriteMultipleCoils") # {}
                  /\ ModelTable[cards[c].Module].AO > 0
                        => FramesTo(c, "WriteMultipleRegisters") # {}
            /\ (safeErr # NoErr) <=> (failed # {})
            /\ failed # {} =>
                  LET k == Min(failed)
                  IN  safeErr = [card |-> frames[k].card,
                                 what |-> IF frames[k].fc = "WriteMultipleCoils"
                                          THEN "DO" ELSE "AO"]

\* C7 witness: the write for the first card failed, the second card was
\* written all the same and the error returned is the first card's
C7_Witness ==
    /\ spc = "done"
    /\ Len(frames) = 2
    /\ ~frames[1].ok
    /\ frames[2].ok
    /\ frames[2].card # frames[1].card
    /\ safeErr.card = frames[1].card

---------------------------------------------------------------------------
(* Properties of the running program, checked under Spec *)

\* C4: once RebootCard(id) has returned success, the next completed read
\* of id is a full read, under every interleaving of RebootCard with the
\* read-write cycle.
C4_FullReadAfterReboot ==
    \A c \in DOMAIN cards : afterReboot[c] # "fast"

\* C8: every accepted TCP session that has ended has triggered exactly one
\* WriteAllOutputsToSafeState invocation, and a connection that never became
\* the peer has triggered none.
C8_OneSafeStatePerSession ==
    \A s \in DOMAIN sessions :
        /\ sessions[s].st = "closed" => safeCalls[s] = 1
        /\ sessions[s].st \in {"none", "rejected"} => safeCalls[s] = 0

\* C9: while a TCP peer is connected, no step of the HTTP handler of a
\* write-do, write-ao, write-aotype or reboot request touches the write
\* queue, a card or the bus: all it may do is answer 503 and return, under
\* every interleaving of the handler with the peer connecting.
C9_HttpInertWhilePeer ==
    [][(clientConn # NoConn /\ http' # http) =>
          (writeQueue' = writeQueue /\ cards' = cards /\ wire' = wire)]_vars

---------------------------------------------------------------------------
(* The write queue: manager.go, QueueWriteDO and ProcessWriteQueue *)

\* most operations queued in one run
MaxEnqueued == 3

\* what the queue specification leaves alone
queueRest == <<cards, ports, safeStateConfig, batchVars, safeVars, dev, busVars,
               sched, http, tcpVars, afterReboot, frames, cycleVars, registryVars, sideVars>>

\* the operations queued so far, in order
Enqueued == SelectSeq(events, LAMBDA e : e.kind = "queue")

\* the write frames of a batch as events of cycle k
writeEvents(fs, k) == [i \in 1..Len(fs) |-> Event("write", fs[i].card, k, fs[i].ok, fs[i])]

\* ProcessWriteQueue that copies the queue and leaves it as it was
takeQueueKeep(q) == [queue |-> q, writeQueue |-> q]

\* ProcessWriteQueue under m.mu: copy the queue, then writeQueue[:0]
takeQueue(q) == [queue |-> q, writeQueue |-> <<>>]

\* the channel count QueueWriteDO (spec.DO) and QueueWriteAO / QueueWriteAOType
\* (spec.AO) compare the index with
channelCount(spec, type) == IF type = writeOpDO THEN spec.DO ELSE spec.AO

\* the checks with the upper limit of the index dropped
queueCheckNoUpper(reg, op) ==
    IF op.CardID \notin DOMAIN reg THEN "card not found"
    ELSE IF op.Index < 0 THEN "index out of range" ELSE ""

\* the checks QueueWriteDO / QueueWriteAO / QueueWriteAOType make before they
\* take the lock: the text of the error returned, "" for none
queueCheck(reg, op) ==
    IF op.CardID \notin DOMAIN reg THEN "card not found"
    ELSE IF op.Index < 0
            \/ op.Index >= channelCount(ModelTable[reg[op.CardID].Module], op.Type)
         THEN "index out of range"
         ELSE ""

\* the body shared by the three: return the error, or append op under m.mu
queueWrite(op) ==
    LET err == queueCheck(cards, op)
    IN  IF err = ""
        THEN /\ writeQueue' = Append(writeQueue, op)
             /\ events' = Append(events, Event("queue", op.CardID, cyc.k, TRUE, op))
        ELSE /\ writeQueue' = writeQueue
             /\ events' = Append(events, Event("reject", op.CardID, cyc.k, FALSE,
                                                [op |-> op, err |-> err]))

\* QueueWriteDO(cardID, index, state)
QueueWriteDO(cardID, index, state) ==
    /\ Len(Enqueued) < MaxEnqueued
    /\ queueWrite(writeOperation(cardID, writeOpDO, index, IF state THEN 1 ELSE 0, ""))
    /\ UNCHANGED <<queueRest, pwq, processed>>

\* QueueWriteAO(cardID, index, value)
QueueWriteAO(cardID, index, value) ==
    /\ Len(Enqueued) < MaxEnqueued
    /\ queueWrite(writeOperation(cardID, writeOpAO, index, value, ""))
    /\ UNCHANGED <<queueRest, pwq, processed>>

\* QueueWriteAOType(cardID, index, mode): the mode string is stored as given
QueueWriteAOType(cardID, index, mode) ==
    /\ Len(Enqueued) < MaxEnqueued
    /\ queueWrite(writeOperation(cardID, writeOpAOType, index, 0, mode))
    /\ UNCHANGED <<queueRest, pwq, processed>>

\* ProcessWriteQueue, up to the unlock: an empty copy makes it return
DrainTake(p) ==
    /\ pwq[p].pc = "idle"
    /\ LET t == takeQueue(writeQueue)
       IN  /\ writeQueue' = t.writeQueue
           /\ pwq' = [pwq EXCEPT ![p] = IF t.queue = <<>> THEN DrainerIdle
                                        ELSE [pc |-> "batch", queue |-> t.queue]]
    /\ UNCHANGED <<queueRest, events, processed>>

\* ProcessWriteQueue, the rest: ProcessBatchWrite(queue), errors are logged
DrainBatch(p) ==
    /\ pwq[p].pc = "batch"
    /\ \E order \in GroupOrders(cards, pwq[p].queue),
          fail \in SUBSET (1..Len(validOpsOf(cards, pwq[p].queue))) :
          events' = events \o
              writeEvents(ProcessBatchWrite(cards, pwq[p].queue, order, fail).frames, cyc.k)
    /\ processed' = processed \o pwq[p].queue
    /\ pwq' = [pwq EXCEPT ![p] = DrainerIdle]
    /\ UNCHANGED <<queueRest, writeQueue>>

InitQueue ==
    /\ cards = (1 :> Card(1, 1, "IO4040", RunDevices[1], FALSE))
    /\ ports = {"/dev/ttyS7"}
    /\ safeStateConfig = DefaultSafeStateConfig
    /\ batchOps = <<>>
    /\ results = <<>>
    /\ frames = <<>>
    /\ bpc = "idle"
    /\ spc = "idle"
    /\ safeErr = NoErr
    /\ RunIdle

NextQueue ==
    \/ \E index \in 0..1, state \in BOOLEAN : QueueWriteDO(1, index, state)
    \/ \E p \in Drainers : DrainTake(p)
    \/ \E p \in Drainers : DrainBatch(p)

SpecQueue == InitQueue /\ [][NextQueue]_vars

\* how often the operation op occurs in the sequence q
Count(op, q) == Cardinality({i \in 1..Len(q) : q[i] = op})

\* C11: every queued operation is consumed at most once: at any time an
\* operation that was queued n times is, counted over the queue, the copies
\* the ProcessWriteQueue callers hold and the operations already handed to
\* ProcessBatchWrite, there n times; so two concurrent callers never hold
\* the same operation, and a failed write is neither queued again nor sent
\* again.
C11_ConsumedOnce ==
    LET ops    == [i \in 1..Len(Enqueued) |-> Enqueued[i].data]
        writes == SelectSeq(events, LAMBDA e : e.kind = "write")
    IN  /\ \A i \in 1..Len(ops) :
              Count(ops[i], writeQueue) + Count(ops[i], pwq["cycle"].queue)
                + Count(ops[i], pwq["caller"].queue) + Count(ops[i], processed)
              = Count(ops[i], ops)
        /\ Len(writeQueue) + Len(pwq["cycle"].queue) + Len(pwq["caller"].queue)
              + Len(processed) = Len(ops)
        /\ Len(writes) <= Len(processed)

\* C11 witness: a write of the queue has failed on the bus, and now both
\* callers are inside ProcessWriteQueue, each with its own copy
C11_Witness ==
    /\ \E i \in 1..Len(events) : events[i].kind = "write" /\ ~events[i].ok
    /\ pwq["cycle"].pc = "batch"
    /\ pwq["caller"].pc = "batch"

---------------------------------------------------------------------------
(* One cycle after another: manager.go, ReadAllAndProcessWrites followed card
   by card, with the inputs of the devices changing, reads failing, writes
   being queued and the callback being set while it runs *)

\* most ReadAllAndProcessWrites calls in one run
MaxCycles == 2

\* most operations queued while the cycles are followed
MaxCycleWrites == 1

\* what the cycle specification leaves alone
cycleRest == <<ports, safeStateConfig, batchVars, safeVars, busVars, sched, http,
               tcpVars, afterReboot, frames, pwq, registryVars, sideVars>>

\* detectStateChange that looks at the outputs as well
detectStateChangeAny(oldState, newState) ==
    oldState.DI # newState.DI \/ oldState.AI # newState.AI \/ oldState.DO # newState.DO

\* detectStateChange: a length or an element of DI, then of AI, differs
detectStateChange(oldState, newState) ==
    \/ Len(oldState.DI) # Len(newState.DI)
    \/ \E i \in 1..Len(newState.DI) : oldState.DI[i] # newState.DI[i]
    \/ Len(oldState.AI) # Len(newState.AI)
    \/ \E i \in 1..Len(newState.AI) : oldState.AI[i] # newState.AI[i]

\* GetAllCards of the callers that take every card, whatever the order
GetAllCardsUnsorted(reg) ==
    LET ids == CHOOSE q \in Orderings(DOMAIN reg) : \A i \in 1..(Len(q) - 1) : q[i] > q[i + 1]
    IN  [i \in 1..Len(ids) |-> reg[ids[i]]]

\* GetAllCards: the cards of the registry, sorted by numeric id
GetAllCards(reg) ==
    LET ids == SortedIds(DOMAIN reg)
    IN  [i \in 1..Len(ids) |-> reg[ids[i]]]

\* the inputs of a device move: the first DI flips, the first AI steps
inputChange(d) ==
    [d EXCEPT !.DI = [i \in 1..Len(d.DI) |-> IF i = 1 THEN ~d.DI[i] ELSE d.DI[i]],
              !.AI = [i \in 1..Len(d.AI) |-> IF i = 1 THEN 1 - d.AI[i] ELSE d.AI[i]]]

\* the devices after the frames fs, those that failed left out
RECURSIVE applyFrames(_, _)
applyFrames(d, fs) ==
    IF fs = <<>> THEN d
    ELSE applyFrames(IF Head(fs).ok THEN [d EXCEPT ![Head(fs).card] = applyFrame(@, Head(fs))]
                     ELSE d, Tail(fs))

\* the card the followed cycle is at
cycCard == cyc.cards[cyc.idx]

\* SetStateChangeCallback(callback), callback nil or not
SetStateChangeCallback(callback) ==
    /\ stateChangeCallback' = callback
    /\ UNCHANGED <<cards, writeQueue, dev, events, processed, cyc, cycleRest>>

\* ReadAllAndProcessWrites is called: the snapshot of the cards, sorted by
\* id; the log keeps the cycle before this one and drops what is older
CycleBegin ==
    /\ cyc.pc = "idle"
    /\ cyc.k < MaxCycles
    /\ cyc' = [pc |-> IF DOMAIN cards = {} THEN "end" ELSE "visit",
               cards |-> SortedIds(DOMAIN cards), idx |-> 1,
               hasStateChange |-> FALSE, k |-> cyc.k + 1]
    /\ events' = SelectSeq(events, LAMBDA e : e.k >= cyc.k)
    /\ UNCHANGED <<cards, writeQueue, dev, processed, stateChangeCallback, cycleRest>>

\* a loop body that gives up the cycle when the read failed
afterReadStop(ok) == IF ok THEN "flush" ELSE "end"

\* where the loop body goes on after readCard returned: the error is stored
\* in c.Last.Error and the body runs on to ProcessWriteQueue
afterRead(ok) == "flush"

\* the loop body up to ProcessWriteQueue: prevState, the flag, readCard, the
\* merge into c.Last, detectStateChange
CycleVisit ==
    /\ cyc.pc = "visit"
    /\ \E ok \in BOOLEAN, moved \in BOOLEAN :
          LET c       == cycCard
              d       == IF moved THEN inputChange(dev[c]) ELSE dev[c]
              prev    == cards[c].Last
              readAll == cards[c].needsFullRead
              last    == mergeRead(prev, readCard(d, readAll), ok, readAll)
          IN  /\ dev' = [dev EXCEPT ![c] = d]
              /\ cards' = [cards EXCEPT ![c].Last = last, ![c].needsFullRead = FALSE]
              /\ events' = Append(events, Event("read", c, cyc.k, ok,
                                     [prev |-> prev, last |-> last, readAll |-> readAll]))
              /\ cyc' = [cyc EXCEPT !.pc = afterRead(ok),
                                    !.hasStateChange = @ \/ detectStateChange(prev, last)]
    /\ UNCHANGED <<writeQueue, processed, stateChangeCallback, cycleRest>>

\* ProcessWriteQueue at the end of the loop body, then on to the next card
CycleFlush ==
    /\ cyc.pc = "flush"
    /\ LET t == takeQueue(writeQueue)
       IN  /\ writeQueue' = t.writeQueue
           /\ processed' = processed \o t.queue
           /\ \E order \in GroupOrders(cards, t.queue),
                 fail \in SUBSET (1..Len(validOpsOf(cards, t.queue))) :
                 LET fs == ProcessBatchWrite(cards, t.queue, order, fail).frames
                 IN  /\ events' = Append(events, Event("flush", cycCard, cyc.k, TRUE, t.queue))
                                     \o writeEvents(fs, cyc.k)
                     /\ dev' = applyFrames(dev, fs)
    /\ cyc' = IF cyc.idx < Len(cyc.cards) THEN [cyc EXCEPT !.pc = "visit", !.idx = @ + 1]
              ELSE [cyc EXCEPT !.pc = "end"]
    /\ UNCHANGED <<cards, stateChangeCallback, cycleRest>>

\* after the loop: the callback is called with GetAllCards(), or it is not
CycleEnd ==
    /\ cyc.pc = "end"
    /\ events' = IF cyc.hasStateChange /\ stateChangeCallback
                 THEN Append(events, Event("callback", 0, cyc.k, TRUE, GetAllCards(cards)))
                 ELSE events
    /\ cyc' = [CycIdle EXCEPT !.k = cyc.k]
    /\ UNCHANGED <<cards, writeQueue, dev, processed, stateChangeCallback, cycleRest>>

\* the two cards of the cycle specification as their devices hold them
CycleDevices ==
    ( 1 :> [CardState EXCEPT !.DI = <<FALSE, FALSE, FALSE, FALSE>>,
                             !.DO = <<FALSE, FALSE, FALSE, FALSE>>,
                             !.SerialNumber = "SN1", !.BaudRate = 9600]
   @@ 2 :> [CardState EXCEPT !.DO = <<FALSE, FALSE, FALSE, FALSE>>,
                             !.AI = <<0, 0, 0, 0>>,
                             !.SerialNumber = "SN2", !.BaudRate = 9600] )

\* AddCard has registered both; the full read of the second may have failed
InitCycle ==
    /\ \E last2 \in {CycleDevices[2], CardState} :
          cards = ( 1 :> Card(1, 1, "IO4040", CycleDevices[1], FALSE)
                 @@ 2 :> Card(2, 2, "IO0440", last2, FALSE) )
    /\ ports = {"/dev/ttyS7"}
    /\ safeStateConfig = DefaultSafeStateConfig
    /\ batchOps = <<>>
    /\ results = <<>>
    /\ frames = <<>>
    /\ bpc = "idle"
    /\ spc = "idle"
    /\ safeErr = NoErr
    /\ dev = CycleDevices
    /\ RunIdleButDev

NextCycle ==
    \/ CycleBegin
    \/ CycleVisit
    \/ CycleFlush
    \/ CycleEnd
    \/ \E callback \in BOOLEAN : SetStateChangeCallback(callback)
    \/ \E cardID \in 1..2 :
          Len(processed) + Len(writeQueue) < MaxCycleWrites /\ QueueWriteDO(cardID, 0, TRUE)

SpecCycle == InitCycle /\ [][NextCycle]_vars

\* the cycle that was running (or had run last) when the operation at
\* position i of the log was queued had by then reached its target card
Reached(i) ==
    \E r \in 1..(i - 1) : /\ events[r].kind = "read"
                          /\ events[r].card = events[i].card
                          /\ events[r].k = events[i].k

\* that cycle was by then through with the target card: it had read it and
\* called ProcessWriteQueue
Visited(i) ==
    \E r \in 1..(i - 1) : /\ events[r].kind = "flush"
                          /\ events[r].card = events[i].card
                          /\ events[r].k = events[i].k

\* position w of the log is the first write to the card of the operation
\* queued at position i
FirstWrite(i, w) ==
    /\ w > i
    /\ events[w].kind = "write"
    /\ events[w].card = events[i].card
    /\ \A j \in (i + 1)..(w - 1) : ~(events[j].kind = "write" /\ events[j].card = events[i].card)

\* C12: a write queued before the cycle has read its target card is put on
\* the bus right after that card's read: the target card is read between the
\* queueing and the write, and no other card is read between that read and
\* the write.
C12_FlushedAfterOwnRead ==
    \A i \in 1..Len(events), w \in 1..Len(events) :
        (events[i].kind = "queue" /\ ~Reached(i) /\ FirstWrite(i, w)) =>
            \E r \in (i + 1)..(w - 1) :
                /\ events[r].kind = "read"
                /\ events[r].card = events[i].card
                /\ \A j \in (r + 1)..(w - 1) : events[j].kind # "read"

\* C13: a write queued after its target card was read in cycle k is not put
\* on the bus in what is left of cycle k, but in cycle k+1.
C13_FlushedNextCycle ==
    \A i \in 1..Len(events), w \in 1..Len(events) :
        (events[i].kind = "queue" /\ Visited(i) /\ FirstWrite(i, w)) =>
            events[w].k = events[i].k + 1

\* the last thing that happened is a read of a card by the cycle
JustRead == events # <<>> /\ events[Len(events)].kind = "read"

\* C14: after a successful fast read the stored aoType, serialNumber and
\* baudRate of the card are the ones stored before that read.
C14_FastReadPreserves ==
    LET e == events[Len(events)]
    IN  (JustRead /\ e.ok /\ ~e.data.readAll) =>
            /\ cards[e.card].Last.AOType = e.data.prev.AOType
            /\ cards[e.card].Last.SerialNumber = e.data.prev.SerialNumber
            /\ cards[e.card].Last.BaudRate = e.data.prev.BaudRate

\* C15: a failed read changes nothing of the stored state but last.error;
\* a successful read stores what the device holds and clears the error.
C15_FailedReadKeepsState ==
    LET e == events[Len(events)]
    IN  JustRead =>
            IF e.ok
            THEN /\ cards[e.card].Last.Error = ""
                 /\ cards[e.card].Last.DI = dev[e.card].DI
                 /\ cards[e.card].Last.DO = dev[e.card].DO
                 /\ cards[e.card].Last.AI = dev[e.card].AI
                 /\ cards[e.card].Last.AO = dev[e.card].AO
            ELSE /\ cards[e.card].Last.Error # ""
                 /\ [cards[e.card].Last EXCEPT !.Error = ""] = [e.data.prev EXCEPT !.Error = ""]

\* C15 witness: a read of the first card failed while its inputs had moved
\* and an output had been written, and the read after that has succeeded
C15_Witness ==
    LET e == events[Len(events)]
    IN  /\ JustRead /\ e.ok /\ e.card = 1
        /\ e.data.prev.Error # ""
        /\ e.data.prev.DI # e.data.last.DI
        /\ e.data.prev.DO # e.data.last.DO

\* C16: the callback is called at most once per cycle, after every card of
\* the cycle's snapshot has been read, and what it is given is every
\* registered card, in ascending order of id, as the registry holds it at
\* the call.
C16_CallbackOncePerCycle ==
    \A j \in 1..Len(events) :
        events[j].kind = "callback" =>
            LET arg == events[j].data
            IN  /\ \A i \in 1..Len(events) :
                      (events[i].kind = "callback" /\ events[i].k = events[j].k) => i = j
                /\ \A c \in DOMAIN cards :
                      \E r \in 1..(j - 1) : /\ events[r].kind = "read"
                                            /\ events[r].card = c
                                            /\ events[r].k = events[j].k
                /\ {arg[i].ID : i \in 1..Len(arg)} = DOMAIN cards
                /\ \A i \in 1..(Len(arg) - 1) : arg[i].ID < arg[i + 1].ID
                /\ j = Len(events) => \A i \in 1..Len(arg) : arg[i] = cards[arg[i].ID]

\* C16 witness: both cycles have called the callback, the second one after
\* the inputs of both cards had moved
C16_Witness ==
    /\ \E j \in 1..Len(events) : events[j].kind = "callback" /\ events[j].k = 1
    /\ events # <<>> /\ events[Len(events)].kind = "callback" /\ events[Len(events)].k = 2
    /\ \A c \in DOMAIN cards :
          \E r \in 1..Len(events) :
              /\ events[r].kind = "read" /\ events[r].card = c /\ events[r].k = 2
              /\ detectStateChange(events[r].data.prev, events[r].data.last)

\* the DI or the AI vector stored by the read e differs from the one before
InputsDiffer(e) ==
    e.data.prev.DI # e.data.last.DI \/ e.data.prev.AI # e.data.last.AI

\* C17: at the end of a cycle the callback is called if and only if a
\* callback is registered and, for a card read in that cycle, the DI or the
\* AI vector after the read differs from the one before it.
C17_CallbackIffInputsChanged ==
    [][(cyc.pc = "end" /\ cyc'.pc = "idle") =>
          ((events' # events /\ events'[Len(events')].kind = "callback")
             <=> (/\ stateChangeCallback
                  /\ \E r \in 1..Len(events) :
                        /\ events[r].kind = "read" /\ events[r].k = cyc.k
                        /\ InputsDiffer(events[r])))]_vars

\* C17 witness: the first cycle has called the callback; the second cycle
\* is over, a callback is registered, one of its reads found an output
\* changed, another one failed, and it has not called the callback
C17_Witness ==
    /\ cyc.pc = "idle" /\ cyc.k = 2 /\ stateChangeCallback
    /\ \E j \in 1..Len(events) : events[j].kind = "callback" /\ events[j].k = 1
    /\ \A j \in 1..Len(events) : ~(events[j].kind = "callback" /\ events[j].k = 2)
    /\ \E r \in 1..Len(events) :
          /\ events[r].kind = "read" /\ events[r].k = 2 /\ events[r].ok
          /\ events[r].data.prev.DO # events[r].data.last.DO
    /\ \E r \in 1..Len(events) : events[r].kind = "read" /\ events[r].k = 2 /\ ~events[r].ok

---------------------------------------------------------------------------
(* The registry: manager.go, AddCard and RemoveCard; port.go, detectModel;
   models.go, guessModel; main.go, the rediscover handler *)

\* the AddCard callers stop when a manager has given that many ids
MaxAdds == 2

\* most POST /rediscover requests in one run
MaxRediscover == 1

\* InitializeManager probes the slaves 1..maxSlave
maxSlave == 2

\* what the registry specification leaves alone
registryRest == <<safeStateConfig, batchVars, safeVars, writeQueue, dev, busVars, sched,
                  http, tcpVars, afterReboot, frames, pwq, processed, cycleVars,
                  sideVars>>

\* which of the six probe requests the slave answers
Probes == [DI8 : BOOLEAN, DI4 : BOOLEAN, DO8 : BOOLEAN, DO4 : BOOLEAN, AI : BOOLEAN, AO : BOOLEAN]

\* no request is answered
NoProbe == [DI8 |-> FALSE, DI4 |-> FALSE, DO8 |-> FALSE, DO4 |-> FALSE, AI |-> FALSE, AO |-> FALSE]

\* what a slave answers at discovery: an IO4040, or nothing at that address
DiscoveryProbes == {[NoProbe EXCEPT !.DI4 = TRUE, !.DO4 = TRUE], NoProbe}

\* what AddCard may find when it detects: these, or a slave that answers
\* every request
AddProbes ==
    DiscoveryProbes \cup {[DI8 |-> TRUE, DI4 |-> TRUE, DO8 |-> TRUE, DO4 |-> TRUE, AI |-> TRUE, AO |-> TRUE]}

Request(fc, addr, qty) == [fc |-> fc, addr |-> addr, qty |-> qty]

probeDI(pr) == IF pr.DI8 THEN 8 ELSE IF pr.DI4 THEN 4 ELSE 0

probeDO(pr) == IF pr.DO8 THEN 8 ELSE IF pr.DO4 THEN 4 ELSE 0

probeAI(pr) == IF pr.AI THEN 4 ELSE 0

probeAO(pr) == IF pr.AO THEN 4 ELSE 0

\* probeCounts: the four probes, DI first, AO last
probeCounts(pr) == <<probeDI(pr), probeDO(pr), probeAI(pr), probeAO(pr)>>

\* the requests probeCounts puts on the bus, in order
probeRequests(pr) ==
    <<Request("ReadDiscreteInputs", 0, 8)>>
    \o (IF pr.DI8 THEN <<>> ELSE <<Request("ReadDiscreteInputs", 0, 4)>>)
    \o <<Request("ReadCoils", 0, 8)>>
    \o (IF pr.DO8 THEN <<>> ELSE <<Request("ReadCoils", 0, 4)>>)
    \o <<Request("ReadInputRegisters", 0, 8), Request("ReadHoldingRegisters", 400, 4)>>

\* guessModel that does not look at the AO count
guessModelNoAO(di, doCount, ai, ao) ==
    CASE di = 4 /\ doCount = 4 /\ ai = 0 -> "IO4040"
      [] di = 0 /\ doCount = 4 /\ ai = 4 -> "IO0440"
      [] di = 0 /\ doCount = 8 /\ ai = 0 -> "IO0080"
      [] di = 8 /\ doCount = 0 /\ ai = 0 -> "IO8000"
      [] di = 0 /\ doCount = 0 /\ ai = 4 -> "IO0404"
      [] OTHER -> "Unknown"

guessModel(di, doCount, ai, ao) ==
    CASE di = 4 /\ doCount = 4 /\ ai = 0 /\ ao = 0 -> "IO4040"
      [] di = 0 /\ doCount = 4 /\ ai = 4 /\ ao = 0 -> "IO0440"
      [] di = 0 /\ doCount = 8 /\ ai = 0 /\ ao = 0 -> "IO0080"
      [] di = 8 /\ doCount = 0 /\ ai = 0 /\ ao = 0 -> "IO8000"
      [] di = 0 /\ doCount = 0 /\ ai = 4 /\ ao = 4 -> "IO0404"
      [] OTHER -> "Unknown"

detectModel(pr) ==
    LET n == probeCounts(pr) IN guessModel(n[1], n[2], n[3], n[4])

\* AddCard's test of the module with only the empty name refused
moduleKnownLoose(module) == module # ""

\* spec, ok := ModelTable[module]: ok
moduleKnown(module) == module \in DOMAIN ModelTable

\* spec, ok := ModelTable[module]: spec
specOf(module) == IF module \in DOMAIN ModelTable THEN ModelTable[module] ELSE ModelSpec

\* what a full read of a card of that model returns
fullState(spec) ==
    [CardState EXCEPT !.DI = [i \in 1..spec.DI |-> FALSE], !.DO = [i \in 1..spec.DO |-> FALSE],
                      !.AI = [i \in 1..spec.AI |-> 0], !.AO = [i \in 1..spec.AO |-> 0],
                      !.AOType = [i \in 1..spec.AO |-> "0-10V"],
                      !.SerialNumber = "SN", !.BaudRate = 9600]

\* m.cards[c.ID] = c
putCard(reg, id, card) ==
    [c \in DOMAIN reg \cup {id} |-> IF c = id THEN card ELSE reg[c]]

\* the managers made so far by rediscover requests
Gen == Len(SelectSeq(events, LAMBDA e : e.kind = "rediscover"))

\* the log without the AddCard call that came to its lookup in the last
\* step: it keeps the registrations
Registrations == SelectSeq(events, LAMBDA e : e.kind # "resolve")

\* AddCard up to the lookup in ModelTable: ensurePort, detectModel when no
\* module is given, and the two early returns
AddCardResolve(p, slave, module, pr, connectOk) ==
    /\ adders[p].pc = "idle"
    /\ nextID <= MaxAdds
    /\ LET portOk   == "/dev/ttyS7" \in ports \/ connectOk
           detected == IF module = "" THEN detectModel(pr) ELSE module
           ok       == portOk /\ detected # "" /\ moduleKnown(detected)
       IN  /\ ports' = IF portOk THEN ports \cup {"/dev/ttyS7"} ELSE ports
           /\ adders' = [adders EXCEPT ![p] =
                 IF ok THEN [pc |-> "register", slave |-> slave, spec |-> specOf(detected), id |-> 0]
                 ELSE AdderIdle]
           /\ events' = Append(Registrations, Event("resolve", slave, Gen, ok,
                 [module |-> module, probes |-> pr, portOk |-> portOk,
                  requests |-> IF module = "" /\ portOk THEN probeRequests(pr) ELSE <<>>,
                  detected |-> detected]))
    /\ UNCHANGED <<cards, nextID, registryRest>>

\* AddCard under m.mu: the id is taken and the card is put in the registry
AddCardRegister(p) ==
    /\ adders[p].pc = "register"
    /\ nextID' = nextID + 1
    /\ cards' = putCard(cards, nextID,
                        Card(nextID, adders[p].slave, adders[p].spec.Name, CardState, FALSE))
    /\ adders' = [adders EXCEPT ![p].pc = "read", ![p].id = nextID]
    /\ events' = Append(Registrations, Event("add", nextID, Gen, TRUE, adders[p].slave))
    /\ UNCHANGED <<ports, registryRest>>

\* AddCard, the full read: c.Last = state if it succeeded
AddCardRead(p) ==
    /\ adders[p].pc = "read"
    /\ \E ok \in BOOLEAN :
          cards' = IF ok /\ adders[p].id \in DOMAIN cards
                   THEN [cards EXCEPT ![adders[p].id].Last = fullState(adders[p].spec)]
                   ELSE cards
    /\ adders' = [adders EXCEPT ![p] = AdderIdle]
    /\ events' = Registrations
    /\ UNCHANGED <<ports, nextID, registryRest>>

\* RemoveCard(id) of a registered card
RemoveCard(id) ==
    /\ id \in DOMAIN cards
    /\ cards' = [c \in DOMAIN cards \ {id} |-> cards[c]]
    /\ events' = Registrations
    /\ UNCHANGED <<ports, nextID, adders, registryRest>>

\* detectModel(pc, slave) called on its own
DetectModel(slave, pr) ==
    /\ events = <<>>
    /\ events' = <<Event("detect", slave, 0, TRUE,
                         [probes |-> pr, requests |-> probeRequests(pr), module |-> detectModel(pr)])>>
    /\ UNCHANGED <<cards, ports, nextID, adders, registryRest>>

\* the loop of InitializeManager from slave sid on: AddCard(path, sid, "")
RECURSIVE discover(_, _, _, _)
discover(m, sid, pr, readOk) ==
    IF sid > maxSlave THEN m
    ELSE LET module == detectModel(pr[sid])
         IN  IF module # "" /\ moduleKnown(module)
             THEN discover([cards |-> putCard(m.cards, m.nextID,
                                Card(m.nextID, sid, specOf(module).Name,
                                     IF readOk THEN fullState(specOf(module)) ELSE CardState, FALSE)),
                            nextID |-> m.nextID + 1,
                            added |-> Append(m.added, [id |-> m.nextID, slave |-> sid])],
                           sid + 1, pr, readOk)
             ELSE discover(m, sid + 1, pr, readOk)

\* POST /rediscover: StopCycle, InitializeManager (NewManager and an AddCard
\* per slave), RefreshAll
Rediscover ==
    /\ Gen < MaxRediscover
    /\ \A p \in AddCallers : adders[p].pc = "idle"
    /\ \E connectOk \in BOOLEAN, readOk \in BOOLEAN, pr \in [1..maxSlave -> DiscoveryProbes] :
          LET new == [cards |-> <<>>, nextID |-> 1, added |-> <<>>]
              m   == IF connectOk THEN discover(new, 1, pr, readOk) ELSE new
          IN  /\ cards' = [c \in DOMAIN m.cards |->
                    [m.cards[c] EXCEPT !.Last = mergeRead(@, readCard(fullState(ModelTable[m.cards[c].Module]), FALSE),
                                                          readOk, FALSE)]]
              /\ nextID' = m.nextID
              /\ ports' = IF connectOk THEN {"/dev/ttyS7"} ELSE {}
              /\ events' = Append(Registrations, Event("rediscover", 0, Gen + 1, connectOk, pr))
                           \o [i \in 1..Len(m.added) |->
                                 Event("add", m.added[i].id, Gen + 1, TRUE, m.added[i].slave)]
    /\ UNCHANGED <<adders, registryRest>>

\* NewManager: no port, no card, the first id is 1
InitRegistry ==
    /\ cards = <<>>
    /\ ports = {}
    /\ safeStateConfig = DefaultSafeStateConfig
    /\ batchOps = <<>>
    /\ results = <<>>
    /\ frames = <<>>
    /\ bpc = "idle"
    /\ spc = "idle"
    /\ safeErr = NoErr
    /\ RunIdle

NextRegistry ==
    \/ \E slave \in 1..maxSlave, module \in {"IO4040", "IO9999"},
          connectOk \in (IF ports = {} THEN BOOLEAN ELSE {TRUE}) :
          AddCardResolve("a", slave, module, NoProbe, connectOk)
    \/ \E pr \in AddProbes, connectOk \in (IF ports = {} THEN BOOLEAN ELSE {TRUE}) :
          AddCardResolve("b", 1, "", pr, connectOk)
    \/ \E p \in AddCallers : AddCardRegister(p)
    \/ \E p \in AddCallers : AddCardRead(p)
    \/ \E id \in DOMAIN cards : RemoveCard(id)
    \/ Rediscover

SpecRegistry == InitRegistry /\ [][NextRegistry]_vars

NextProbe == \E slave \in 1..maxSlave, pr \in Probes : DetectModel(slave, pr)

SpecProbe == InitRegistry /\ [][NextProbe]_vars

\* C18: the ids given to cards are unique in the process and grow: of two
\* cards registered one after the other, by AddCard calls (concurrent or
\* not) or by a rediscover, with cards removed in between or not, the
\* later one has the greater id.
C18_IdsUnique ==
    \A i, j \in 1..Len(events) :
        (i < j /\ events[i].kind = "add" /\ events[j].kind = "add") =>
            events[i].card < events[j].card

\* C19: an AddCard call whose detection yields "Unknown", or whose module
\* name is not in the model table, fails; and a failed AddCard call leaves
\* the registry and the next id as they were before it.
C19_FailedAddRegistersNothing ==
    [][(events' # events /\ events'[Len(events')].kind = "resolve") =>
          LET e == events'[Len(events')]
          IN  /\ (e.data.detected = "Unknown" \/ e.data.detected \notin DOMAIN ModelTable)
                    => ~e.ok
              /\ ~e.ok => (cards' = cards /\ nextID' = nextID)]_vars

\* C19 witness: with a card registered and the other caller about to take
\* an id, an AddCard call with no module has detected "Unknown" and failed
C19_Witness ==
    /\ events # <<>>
    /\ LET e == events[Len(events)]
       IN  /\ e.kind = "resolve" /\ ~e.ok /\ e.data.portOk
           /\ e.data.module = "" /\ e.data.detected = "Unknown"
    /\ cards # <<>>
    /\ adders["a"].pc = "register"

\* the model whose table entry is the tuple n, "Unknown" if there is none
TableModel(n) ==
    IF \E name \in DOMAIN ModelTable :
          <<ModelTable[name].DI, ModelTable[name].DO, ModelTable[name].AI, ModelTable[name].AO>> = n
    THEN CHOOSE name \in DOMAIN ModelTable :
          <<ModelTable[name].DI, ModelTable[name].DO, ModelTable[name].AI, ModelTable[name].AO>> = n
    ELSE "Unknown"

\* the place of a request in the order DI, DO, AI, AO
ProbeRank(fc) ==
    CASE fc = "ReadDiscreteInputs" -> 1
      [] fc = "ReadCoils" -> 2
      [] fc = "ReadInputRegisters" -> 3
      [] fc = "ReadHoldingRegisters" -> 4

\* C20: detection probes in the order DI, DO, AI, AO, and its result is a
\* function of the probe outcomes: the model whose table entry equals the
\* probed tuple, "Unknown" when no entry does.
C20_DetectionByTable ==
    \A i \in 1..Len(events) :
        events[i].kind = "detect" =>
            LET d == events[i].data
            IN  /\ d.module = TableModel(probeCounts(d.probes))
                /\ \A a, b \in 1..Len(d.requests) :
                      a < b => ProbeRank(d.requests[a].fc) <= ProbeRank(d.requests[b].fc)
                /\ {ProbeRank(d.requests[a].fc) : a \in 1..Len(d.requests)} = 1..4

\* C20 witness: the slave refused the reads of 8 and of 4 discrete inputs
\* and coils and answered the two register reads: an IO0404 is detected
C20_Witness ==
    \E i \in 1..Len(events) :
        /\ events[i].kind = "detect"
        /\ events[i].data.module = "IO0404"
        /\ Len(events[i].data.requests) = 6

---------------------------------------------------------------------------
(* Entering the queue: manager.go, QueueWriteDO, QueueWriteAO and
   QueueWriteAOType called with any card id, index and mode, and
   ProcessWriteQueue sending what was queued *)

\* most QueueWrite calls in one run
MaxCalls == 2

\* the QueueWrite calls made so far, accepted or not
Calls == SelectSeq(events, LAMBDA e : e.kind \in {"queue", "reject"})

\* card ids, indices and mode strings callers pass
CallCards == 1..3
CallIndices == {-1, 0, 4}
CallModes == {"0-10V", "4-20mA", "0-5V"}

\* AddCard has registered an IO4040 and an IO0404 and read them in full
InitEnqueue ==
    /\ cards = ( 1 :> Card(1, 1, "IO4040", fullState(ModelTable["IO4040"]), FALSE)
              @@ 2 :> Card(2, 2, "IO0404", fullState(ModelTable["IO0404"]), FALSE) )
    /\ ports = {"/dev/ttyS7"}
    /\ safeStateConfig = DefaultSafeStateConfig
    /\ batchOps = <<>>
    /\ results = <<>>
    /\ frames = <<>>
    /\ bpc = "idle"
    /\ spc = "idle"
    /\ safeErr = NoErr
    /\ RunIdle

NextEnqueue ==
    \/ /\ Len(Calls) < MaxCalls
       /\ \E c \in CallCards, index \in CallIndices : QueueWriteDO(c, index, TRUE)
    \/ /\ Len(Calls) < MaxCalls
       /\ \E c \in CallCards, index \in CallIndices : QueueWriteAO(c, index, 5)
    \/ /\ Len(Calls) < MaxCalls
       /\ \E c \in CallCards, index \in CallIndices, mode \in CallModes :
             QueueWriteAOType(c, index, mode)
    \/ DrainTake("cycle")
    \/ DrainBatch("cycle")

SpecEnqueue == InitEnqueue /\ [][NextEnqueue]_vars

\* the operation a call was made for
CallOp(e) == IF e.kind = "queue" THEN e.data ELSE e.data.op

\* C21: a QueueWriteDO / QueueWriteAO / QueueWriteAOType call for a card id
\* that is not registered, or for an index outside 0 .. count-1 of the
\* channels of that kind of the card's model, returns an error and leaves the
\* queue as it was; every other call appends exactly its one operation at
\* the tail of the queue; neither changes anything else.
C21_QueueWriteContract ==
    [][Len(Calls') = Len(Calls) + 1 =>
          LET e  == events'[Len(events')]
              op == CallOp(e)
              count == IF op.Type = writeOpDO THEN ModelTable[cards[op.CardID].Module].DO
                       ELSE ModelTable[cards[op.CardID].Module].AO
              bad == \/ op.CardID \notin DOMAIN cards
                     \/ op.Index < 0
                     \/ op.Index >= count
          IN  /\ bad => /\ e.kind = "reject"
                        /\ e.data.err # ""
                        /\ writeQueue' = writeQueue
              /\ ~bad => /\ e.kind = "queue"
                         /\ writeQueue' = Append(writeQueue, op)
              /\ UNCHANGED <<cards, dev, frames, pwq, processed, queueRest>>
      ]_vars

\* C21 witness: one call was refused for its index, 4 on a model with four
\* AO channels, and a call for an AO type was accepted
C21_Witness ==
    /\ \E i \in 1..Len(events) :
          /\ events[i].kind = "reject"
          /\ events[i].data.err = "index out of range"
          /\ events[i].data.op.Type = writeOpAO
          /\ events[i].data.op.CardID = 2
          /\ events[i].data.op.Index = 4
    /\ \E i \in 1..Len(events) :
          /\ events[i].kind = "queue"
          /\ events[i].data.Type = writeOpAOType
    /\ Len(writeQueue) = 1

\* the mode strings the cards know
AOModes == {"0-10V", "4-20mA"}

\* C22: an AO type write with a mode string other than "0-10V" and "4-20mA"
\* is refused: it never enters the queue and no register write is sent to
\* the card for it.
C22_UnknownModeRejected ==
    /\ \A i \in 1..Len(events) :
          (events[i].kind = "queue" /\ events[i].data.Type = writeOpAOType)
             => events[i].data.Mode \in AOModes
    /\ \A i \in 1..Len(processed) :
          (processed[i].Type = writeOpAOType /\ processed[i].Mode \notin AOModes)
             => ~ \E j \in 1..Len(events) :
                     /\ events[j].kind = "write"
                     /\ events[j].data.card = processed[i].CardID
                     /\ events[j].data.addr = AOTypeBase + processed[i].Index


---------------------------------------------------------------------------
(* Write batches of the TCP peer: tcp_server.go, handleClient and
   processWriteCommand, with RebootCard and ProcessBatchWrite of manager.go *)

\* most commands in one batch
MaxCommands == 3

\* the command types processWriteCommand turns into write operations
WriteTypes == {"write-do", "write-ao", "write-aotype"}

\* the register and the value of portClient.reboot
RebootReg == 16
RebootValue == 65280

\* the positions of the commands whose type is in T, in order
indicesOf(commands, T) ==
    SelectSeq([i \in 1..Len(commands) |-> i], LAMBDA i : commands[i].Type \in T)

\* the write operation the first loop builds for a command
commandOp(item) ==
    CASE item.Type = "write-do" ->
            writeOperation(item.CardID, writeOpDO, item.Index, IF item.State THEN 1 ELSE 0, "")
      [] item.Type = "write-ao" ->
            writeOperation(item.CardID, writeOpAO, item.Index, item.Value, "")
      [] OTHER ->
            writeOperation(item.CardID, writeOpAOType, item.Index, 0, item.Mode)

\* a RebootCard that leaves needsFullRead as it is
rebootCardNoFlag(reg, cardID, ok) ==
    IF cardID \notin DOMAIN reg
    THEN [err |-> "card not found", frames |-> <<>>, cards |-> reg]
    ELSE [err |-> IF ok THEN "" ELSE BusErr,
          frames |-> <<Frame(reg[cardID], "WriteSingleRegister", RebootReg, 1,
                             <<RebootValue>>, ok)>>,
          cards |-> reg]

\* Manager.RebootCard(cardID) on registry reg; ok tells whether the register
\* write succeeds
rebootCard(reg, cardID, ok) ==
    IF cardID \notin DOMAIN reg
    THEN [err |-> "card not found", frames |-> <<>>, cards |-> reg]
    ELSE [err |-> IF ok THEN "" ELSE BusErr,
          frames |-> <<Frame(reg[cardID], "WriteSingleRegister", RebootReg, 1,
                             <<RebootValue>>, ok)>>,
          cards |-> [reg EXCEPT ![cardID].needsFullRead = TRUE]]

\* the loop over rebootIndices from its k-th entry on; acc holds the results
\* by command position, the frames sent and the registry so far
RECURSIVE rebootAll(_, _, _, _, _)
rebootAll(commands, idxs, k, rebootFail, acc) ==
    IF k > Len(idxs) THEN acc
    ELSE LET idx == idxs[k]
             r   == rebootCard(acc.cards, commands[idx].CardID, idx \notin rebootFail)
             res == IF r.err # ""
                    THEN [Index |-> idx - 1, Status |-> "error", Message |-> r.err]
                    ELSE [Index |-> idx - 1, Status |-> "ok", Message |-> ""]
         IN  rebootAll(commands, idxs, k + 1, rebootFail,
                       [results |-> [acc.results EXCEPT ![idx] = res],
                        frames  |-> acc.frames \o r.frames,
                        cards   |-> r.cards])

\* the operations handed to ProcessBatchWrite for a batch of commands
commandOps(commands) ==
    LET w == indicesOf(commands, WriteTypes)
    IN  [k \in 1..Len(w) |-> commandOp(commands[w[k]])]

\* the WriteResponse for the results: "error" with the first failed command
writeResponse(rs) ==
    LET failed == {i \in 1..Len(rs) : rs[i].Status = "error"}
    IN  IF failed = {}
        THEN [Type |-> "write-response", Status |-> "ok", Results |-> rs,
              Message |-> "", FailedIndex |-> 0]
        ELSE [Type |-> "write-response", Status |-> "error", Results |-> rs,
              Message |-> rs[Min(failed)].Message, FailedIndex |-> Min(failed) - 1]

\* processWriteCommand on registry reg: the response, the frames sent in
\* order and the registry afterwards
processWriteCommand(reg, commands, rebootFail, order, fail) ==
    IF Len(commands) = 0
    THEN [response |-> [Type |-> "write-response", Status |-> "error", Results |-> <<>>,
                        Message |-> "no commands in batch", FailedIndex |-> 0],
          frames |-> <<>>, cards |-> reg]
    ELSE LET ops == commandOps(commands)
             w   == indicesOf(commands, WriteTypes)
             rb  == rebootAll(commands, indicesOf(commands, {"reboot"}), 1, rebootFail,
                              [results |-> [i \in 1..Len(commands) |-> CommandResult],
                               frames |-> <<>>, cards |-> reg])
             wr  == IF Len(ops) > 0 THEN ProcessBatchWrite(rb.cards, ops, order, fail)
                    ELSE [results |-> <<>>, frames |-> <<>>]
             all == [i \in 1..Len(commands) |->
                           IF \E k \in 1..Len(w) : w[k] = i /\ k <= Len(wr.results)
                           THEN LET k == CHOOSE k \in 1..Len(w) : w[k] = i
                                IN  [wr.results[k] EXCEPT !.Index = i - 1]
                           ELSE rb.results[i]]
         IN  [response |-> writeResponse(all),
              frames |-> rb.frames \o wr.frames, cards |-> rb.cards]

\* the commands a peer sends
CommandItems ==
    { WriteCommandItem("write-do", 1, 0, TRUE, 0, ""),
      WriteCommandItem("write-do", 1, 1, TRUE, 0, ""),
      WriteCommandItem("write-do", 3, 0, TRUE, 0, ""),
      WriteCommandItem("write-ao", 2, 0, FALSE, 5, ""),
      WriteCommandItem("write-aotype", 2, 0, FALSE, 0, "4-20mA"),
      WriteCommandItem("reboot", 1, 0, FALSE, 0, ""),
      WriteCommandItem("reboot", 3, 0, FALSE, 0, ""),
      WriteCommandItem("read-di", 1, 0, FALSE, 0, "") }

CommandBatches == UNION {[1..n -> CommandItems] : n \in 0..MaxCommands}

\* handleClient: the scanner delivers a line that decodes to a "write"
\* message
TcpReceive ==
    /\ ~command.got
    /\ \E cs \in CommandBatches : command' = [got |-> TRUE, Commands |-> cs]
    /\ response' = NoResponse
    /\ frames' = <<>>
    /\ UNCHANGED <<cards, ports, safeStateConfig, batchVars, safeVars, writeQueue, dev,
                   busVars, sched, http, tcpVars, afterReboot, queueVars, cycleVars,
                   registryVars, bw, loop, stopChan, rebootCall, managers, app, regMu, goroutines>>

\* processWriteCommand(&cmd, clientConn), up to encoder.Encode(response)
TcpProcess ==
    /\ command.got
    /\ \E rebootFail \in SUBSET {i \in 1..Len(command.Commands) :
                                    command.Commands[i].Type = "reboot"} :
          LET ops == commandOps(command.Commands)
              reg == rebootAll(command.Commands, indicesOf(command.Commands, {"reboot"}),
                               1, rebootFail,
                               [results |-> [i \in 1..Len(command.Commands) |-> CommandResult],
                                frames |-> <<>>, cards |-> cards]).cards
          IN  \E order \in GroupOrders(reg, ops),
                 fail \in SUBSET (1..Len(validOpsOf(reg, ops))) :
                 LET out == processWriteCommand(cards, command.Commands, rebootFail,
                                                order, fail)
                 IN  /\ response' = out.response
                     /\ frames' = out.frames
                     /\ cards' = out.cards
    /\ command' = [command EXCEPT !.got = FALSE]
    /\ UNCHANGED <<ports, safeStateConfig, batchVars, safeVars, writeQueue, dev,
                   busVars, sched, http, tcpVars, afterReboot, queueVars, cycleVars,
                   registryVars, bw, loop, stopChan, rebootCall, managers, app, regMu, goroutines>>

\* two cards are registered and read in full; a peer is connected
InitCommand ==
    /\ cards = ( 1 :> Card(1, 1, "IO4040", fullState(ModelTable["IO4040"]), FALSE)
              @@ 2 :> Card(2, 2, "IO0404", fullState(ModelTable["IO0404"]), FALSE) )
    /\ ports = {"/dev/ttyS7"}
    /\ safeStateConfig = DefaultSafeStateConfig
    /\ batchOps = <<>>
    /\ results = <<>>
    /\ frames = <<>>
    /\ bpc = "idle"
    /\ spc = "idle"
    /\ safeErr = NoErr
    /\ RunIdle

NextCommand ==
    \/ TcpReceive
    \/ TcpProcess

SpecCommand == InitCommand /\ [][NextCommand]_vars

\* the frame of a reboot
IsReboot(f) == f.fc = "WriteSingleRegister" /\ f.addr = RebootReg

\* the batch just answered
Answered == response # NoResponse /\ Len(command.Commands) > 0

\* C23: for a batch of reboot and write commands every reboot frame is on
\* the bus before any write frame of the batch, and the response holds one
\* result per command, the i-th with index i and describing command i: "ok"
\* or "error", for a reboot "ok" exactly when the card is registered and its
\* reboot frame succeeded, for a write to an unregistered card "error".
C23_RebootsFirstResultsInOrder ==
    LET cs == command.Commands
        rs == response.Results
        rebooted == SelectSeq([i \in 1..Len(cs) |-> i],
                        LAMBDA i : cs[i].Type = "reboot" /\ cs[i].CardID \in DOMAIN cards)
        rframes == SelectSeq(frames, IsReboot)
    IN  (Answered /\ \A i \in 1..Len(cs) : cs[i].Type \in WriteTypes \cup {"reboot"}) =>
          /\ \A a, b \in 1..Len(frames) : (IsReboot(frames[b]) /\ ~IsReboot(frames[a])) => b < a
          /\ Len(rframes) = Len(rebooted)
          /\ Len(rs) = Len(cs)
          /\ \A i \in 1..Len(cs) :
                /\ rs[i].Index = i - 1
                /\ rs[i].Status \in {"ok", "error"}
                /\ cs[i].CardID \notin DOMAIN cards => rs[i].Status = "error"
          /\ \A k \in 1..Len(rebooted) :
                /\ rframes[k].card = cs[rebooted[k]].CardID
                /\ rs[rebooted[k]].Status = "ok" <=> rframes[k].ok

\* C24: a command of a type other than write-do, write-ao, write-aotype and
\* reboot gets a result with status "error" and makes the status of the
\* response "error"; no frame is sent for it.
C24_UnknownTypeIsError ==
    LET cs == command.Commands
    IN  \A i \in 1..Len(cs) :
           (Answered /\ cs[i].Type \notin WriteTypes \cup {"reboot"}) =>
              /\ response.Results[i].Status = "error"
              /\ response.Status = "error"
              /\ Len(frames) <= Cardinality({j \in 1..Len(cs) :
                                               cs[j].Type \in WriteTypes \cup {"reboot"}})


---------------------------------------------------------------------------
(* A batch write while cards are removed: manager.go, ProcessBatchWrite
   followed step by step (the validation loop, then for every group the
   GetCard of processWriteGroup and the frames it sends), with
   RemoveCard called in between *)

\* what the steps of the batch leave alone
removeRest == <<ports, safeStateConfig, batchOps, safeVars, writeQueue, dev, busVars, sched,
                http, tcpVars, afterReboot, queueVars, cycleVars, registryVars,
                command, response, loop, stopChan, rebootCall, managers, app, regMu, goroutines>>

\* the ops of the batches
RemoveOpSet ==
    { writeOperation(1, writeOpDO, 0, 1, ""),
      writeOperation(1, writeOpDO, 3, 1, ""),
      writeOperation(2, writeOpAO, 0, 4000, ""),
      writeOperation(2, writeOpAOType, 1, 0, "4-20mA") }

RemoveBatches == UNION {[1..n -> RemoveOpSet] : n \in 1..MaxOps}

\* ProcessBatchWrite, the validation loop and the grouping
BatchValidate ==
    /\ bpc = "call"
    /\ LET res0     == [i \in 1..Len(batchOps) |-> validateOp(cards, batchOps[i], i - 1)]
           v2o      == validToOrig(res0)
           validOps == [k \in 1..Len(v2o) |-> batchOps[v2o[k]]]
       IN  /\ results' = res0
           /\ IF Len(validOps) = 0
              THEN bpc' = "done" /\ bw' = NoBatch
              ELSE /\ bpc' = "group"
                   /\ \E order \in Orderings(DOMAIN GroupWriteOperations(validOps)) :
                         bw' = [validOps |-> validOps, v2o |-> v2o, order |-> order,
                                g |-> 1, reg |-> <<>>]
    /\ UNCHANGED <<cards, frames, removeRest>>

\* processWriteGroup, m.GetCard(group.CardID): the card, or not found
BatchGetCard ==
    /\ bpc = "group"
    /\ bw' = [bw EXCEPT !.reg = cards]
    /\ bpc' = "write"
    /\ UNCHANGED <<cards, results, frames, removeRest>>

\* processWriteGroup, the rest: the frames of the group go out, and
\* ProcessBatchWrite copies the group's results into its own
BatchGroupWrite ==
    /\ bpc = "write"
    /\ LET group == GroupWriteOperations(bw.validOps)[bw.order[bw.g]]
       IN  \E fail \in SUBSET (Len(frames) + 1 .. Len(frames) + Len(group.Operations)) :
              LET out == processWriteGroup(bw.reg, group, Len(frames), fail)
              IN  /\ frames' = frames \o out.frames
                  /\ results' = mapGroupResults(results, bw.validOps, bw.v2o,
                                                group.Operations, out.results, 1)
    /\ IF bw.g < Len(bw.order)
       THEN bpc' = "group" /\ bw' = [bw EXCEPT !.g = @ + 1, !.reg = <<>>]
       ELSE bpc' = "done" /\ bw' = NoBatch
    /\ UNCHANGED <<cards, removeRest>>

InitRemove ==
    /\ cards = ( 1 :> Card(1, 1, "IO4040", fullState(ModelTable["IO4040"]), FALSE)
              @@ 2 :> Card(2, 2, "IO0404", fullState(ModelTable["IO0404"]), FALSE) )
    /\ ports = {"/dev/ttyS7"}
    /\ safeStateConfig = DefaultSafeStateConfig
    /\ batchOps \in RemoveBatches
    /\ results = <<>>
    /\ frames = <<>>
    /\ bpc = "call"
    /\ spc = "idle"
    /\ safeErr = NoErr
    /\ RunIdle

NextRemove ==
    \/ BatchValidate
    \/ BatchGetCard
    \/ BatchGroupWrite
    \/ \E id \in DOMAIN cards : RemoveCard(id)

SpecRemove == InitRemove /\ [][NextRemove]_vars

\* the function code of the frames of an operation type
fcOf(type) ==
    CASE type = writeOpDO -> "WriteMultipleCoils"
      [] type = writeOpAO -> "WriteMultipleRegisters"
      [] OTHER -> "WriteSingleRegister"

\* C25: however RemoveCard(id) falls between the steps of a batch write, no
\* frame for id is put on the bus once RemoveCard(id) has returned (a frame
\* goes out only to a card that is registered at that moment), and an op
\* that reports "card not found" had no frame sent for it.
C25_NoFrameAfterRemove ==
    [][/\ \A k \in Len(frames) + 1 .. Len(frames') : frames'[k].card \in DOMAIN cards
       /\ \A i \in 1..Len(results') :
             results'[i].Message = "card not found" =>
                ~ \E k \in 1..Len(frames') :
                     /\ frames'[k].card = batchOps[i].CardID
                     /\ frames'[k].fc = fcOf(batchOps[i].Type)
      ]_vars


---------------------------------------------------------------------------
(* Reading a card from the bytes on the wire: port.go, unpackBits, packBits
   and readCard, and the three places that store what was read: manager.go,
   AddCard, ReadAllAndProcessWrites and RefreshAll *)

\* what the reads leave alone
readRest == <<ports, safeStateConfig, batchVars, frames, safeVars, writeQueue, busVars,
              sched, http, tcpVars, afterReboot, pwq, processed, cycleVars, nextID,
              sideVars>>

\* the byte of packBits with index b (from 0) built from bit i (from 0) on
RECURSIVE packByte(_, _, _)
packByte(values, b, i) ==
    IF i > 7 \/ 8 * b + i + 1 > Len(values) THEN 0
    ELSE (IF values[8 * b + i + 1] THEN 2 ^ i ELSE 0) + packByte(values, b, i + 1)

\* packBits: bit i of the slice is bit i % 8 of byte i / 8
packBits(values) == [b \in 1..((Len(values) + 7) \div 8) |-> packByte(values, b - 1, 0)]

\* unpackBits that returns every bit of the bytes received
unpackBitsAll(raw, count) ==
    [i \in 1..(8 * Len(raw)) |-> (raw[((i - 1) \div 8) + 1] \div (2 ^ ((i - 1) % 8))) % 2 = 1]

\* unpackBits: count bools, bit i taken from byte i / 8 if that byte is there
unpackBits(raw, count) ==
    [i \in 1..count |->
        LET byteIdx == (i - 1) \div 8
            bitIdx  == (i - 1) % 8
        IN  IF byteIdx < Len(raw) THEN (raw[byteIdx + 1] \div (2 ^ bitIdx)) % 2 = 1
            ELSE FALSE]

\* the bytes of n 16-bit registers, big endian
regBytes(regs, n) ==
    [k \in 1..(2 * n) |-> IF k % 2 = 1 THEN regs[(k + 1) \div 2] \div 256
                          ELSE regs[k \div 2] % 256]

\* binary.BigEndian.Uint32(raw[i*4 : i*4+4]); a float32 is held as its bits
uint32At(raw, i) ==
    ((raw[4 * i + 1] * 256 + raw[4 * i + 2]) * 256 + raw[4 * i + 3]) * 256 + raw[4 * i + 4]

\* binary.BigEndian.Uint16(typeRaw[i*2 : i*2+2])
uint16At(raw, i) == raw[2 * i + 1] * 256 + raw[2 * i + 2]

\* the name readCard gives to an AO type register
aoTypeName(val) ==
    CASE val = 1 -> "0-10V"
      [] val = 4 -> "4-20mA"
      [] OTHER -> "0x0007"

\* what a slave holds: eight inputs and coils, four 32-bit input and holding
\* values in two registers each, four AO type registers, serial and baud rate
Images ==
    [inputs : {[i \in 1..8 |-> FALSE], [i \in 1..8 |-> i % 3 = 1]},
     coils  : {[i \in 1..8 |-> i = 2]},
     inRegs : {<<0, 0, 16256, 0, 0, 0, 0, 1>>},
     holdRegs : {<<16672, 0, 0, 0, 0, 0, 0, 0>>},
     typeRegs : {<<1, 4, 7, 1>>},
     sn : {"SN1"}, baud : {9600}]

\* the sub-reads of readCard in the order it makes them
ReadRank == ("none" :> 5 @@ "DI" :> 1 @@ "DO" :> 2 @@ "AI" :> 3 @@ "AO" :> 4)

\* portClient.readCard(slave, spec, readAll) against a slave holding img;
\* the sub-read failAt fails, typeOk and infoOk tell whether the AO types
\* and the serial number and baud rate can be read
readCardBytes(spec, img, readAll, failAt, typeOk, infoOk) ==
    LET count == ("DI" :> spec.DI @@ "DO" :> spec.DO @@ "AI" :> spec.AI @@ "AO" :> spec.AO)
        failRank == IF failAt # "none" /\ count[failAt] > 0 THEN ReadRank[failAt] ELSE 5
        done(kind) == count[kind] > 0 /\ ReadRank[kind] < failRank
        diRaw == packBits(SubSeq(img.inputs, 1, spec.DI))
        doRaw == packBits(SubSeq(img.coils, 1, spec.DO))
        aiRaw == regBytes(img.inRegs, spec.AI * 2)
        aoRaw == regBytes(img.holdRegs, spec.AO * 2)
        typeRaw == regBytes(img.typeRegs, spec.AO)
        full == failRank = 5 /\ readAll
    IN  [ok |-> failRank = 5,
         state |->
            [DI |-> IF done("DI") THEN unpackBits(diRaw, spec.DI) ELSE <<>>,
             DO |-> IF done("DO") THEN unpackBits(doRaw, spec.DO) ELSE <<>>,
             AI |-> IF done("AI") THEN [i \in 1..spec.AI |-> uint32At(aiRaw, i - 1)] ELSE <<>>,
             AO |-> IF done("AO") THEN [i \in 1..spec.AO |-> uint32At(aoRaw, i - 1)] ELSE <<>>,
             AOType |-> IF done("AO") /\ readAll /\ typeOk
                        THEN [i \in 1..spec.AO |-> aoTypeName(uint16At(typeRaw, i - 1))]
                        ELSE <<>>,
             SerialNumber |-> IF full /\ infoOk THEN img.sn ELSE "",
             BaudRate |-> IF full /\ infoOk THEN img.baud ELSE 0,
             Error |-> IF failRank = 5 THEN "" ELSE failAt \o " read error"]]

\* the sub-read that fails in a readCard call ("none": none)
ReadFailures == {"none", "DI", "DO", "AI", "AO"}

\* a successful read was stored in c.Last
HadRead == events # <<>>

\* events after a read: the first success is kept
readLog(ok) == IF ok \/ HadRead THEN <<Event("read", 1, 0, TRUE, <<>>)>> ELSE <<>>

\* AddCard, the full read of the card it has just registered: c.Last = state
\* if it succeeded
RegistrationRead(p) ==
    /\ adders[p].pc = "read"
    /\ \E failAt \in ReadFailures, typeOk \in BOOLEAN, infoOk \in BOOLEAN :
          LET r == readCardBytes(adders[p].spec, dev[adders[p].id], TRUE,
                                 failAt, typeOk, infoOk)
          IN  /\ cards' = IF r.ok THEN [cards EXCEPT ![adders[p].id].Last = r.state]
                          ELSE cards
              /\ events' = readLog(r.ok)
    /\ adders' = [adders EXCEPT ![p] = AdderIdle]
    /\ UNCHANGED <<dev, readRest>>

\* the loop body of ReadAllAndProcessWrites and of RefreshAll for card c:
\* the flag is taken, the card is read, the outcome is stored
readInto(c) ==
    \E failAt \in ReadFailures, typeOk \in BOOLEAN, infoOk \in BOOLEAN :
       LET readAll == cards[c].needsFullRead
           r == readCardBytes(ModelTable[cards[c].Module], dev[c], readAll,
                              failAt, typeOk, infoOk)
       IN  /\ cards' = [cards EXCEPT ![c].Last = mergeRead(@, r.state, r.ok, readAll),
                                     ![c].needsFullRead = FALSE]
           /\ events' = readLog(r.ok)

\* ReadAllAndProcessWrites reaches card c
ScheduledRead(c) ==
    /\ readInto(c)
    /\ UNCHANGED <<dev, adders, readRest>>

\* RefreshAll reaches card c
RefreshRead(c) ==
    /\ readInto(c)
    /\ UNCHANGED <<dev, adders, readRest>>

\* RebootCard under m.mu: the next read of the card is a full one
RebootFlag(c) ==
    /\ ~cards[c].needsFullRead
    /\ cards' = [cards EXCEPT ![c].needsFullRead = TRUE]
    /\ UNCHANGED <<dev, events, adders, readRest>>

\* the inputs of the slave change
DeviceChange(c) ==
    /\ \E img \in Images \ {dev[c]} : dev' = [dev EXCEPT ![c] = img]
    /\ UNCHANGED <<cards, events, adders, readRest>>

\* AddCard has put a card of any model in the registry and is about to
\* read it
InitRead ==
    /\ \E module \in DOMAIN ModelTable :
          /\ cards = (1 :> Card(1, 1, module, CardState, FALSE))
          /\ adders = [p \in AddCallers |->
                         IF p = "a" THEN [pc |-> "read", slave |-> 1,
                                          spec |-> ModelTable[module], id |-> 1]
                         ELSE AdderIdle]
    /\ ports = {"/dev/ttyS7"}
    /\ safeStateConfig = DefaultSafeStateConfig
    /\ batchOps = <<>>
    /\ results = <<>>
    /\ frames = <<>>
    /\ bpc = "idle"
    /\ spc = "idle"
    /\ safeErr = NoErr
    /\ dev \in [{1} -> Images]
    /\ writeQueue = <<>>
    /\ portMu = NoProc
    /\ handlerSlave = 5
    /\ wire = {}
    /\ sched = SchedIdle
    /\ http = HttpIdle
    /\ clientConn = NoConn
    /\ stopped = FALSE
    /\ sessions = [s \in 1..MaxSessions |-> NoSession]
    /\ safeCalls = [s \in 1..MaxSessions |-> 0]
    /\ afterReboot = [c \in {1} |-> "none"]
    /\ pwq = [p \in Drainers |-> DrainerIdle]
    /\ events = <<>>
    /\ processed = <<>>
    /\ cyc = CycIdle
    /\ stateChangeCallback = FALSE
    /\ nextID = 2
    /\ command = NoCommand
    /\ response = NoResponse
    /\ bw = NoBatch
    /\ loop = LoopStart
    /\ stopChan = StopOpen
    /\ rebootCall = RebootIdle
    /\ managers = StartManagers
    /\ app = AppStart
    /\ regMu = NoProc
    /\ goroutines = GoIdle

NextRead ==
    \/ RegistrationRead("a")
    \/ ScheduledRead(1)
    \/ RefreshRead(1)
    \/ RebootFlag(1)
    \/ DeviceChange(1)

SpecRead == InitRead /\ [][NextRead]_vars

\* C26: once a read of a card has succeeded, the DI, DO, AI and AO vectors
\* of its cached state have the lengths of the card's model, and the AO type
\* vector is empty or has the model's AO count, whatever reads follow.
C26_LengthsMatchModel ==
    HadRead =>
       LET last == cards[1].Last
           spec == ModelTable[cards[1].Module]
       IN  /\ Len(last.DI) = spec.DI
           /\ Len(last.DO) = spec.DO
           /\ Len(last.AI) = spec.AI
           /\ Len(last.AO) = spec.AO
           /\ Len(last.AOType) \in {0, spec.AO}

\* C26 witness: an IO0404 whose AO types could not be read, after a read
\* that succeeded and a later one that failed; and the inputs of the model
\* were decoded from the byte on the wire
C26_Witness ==
    /\ HadRead
    /\ cards[1].Module = "IO0404"
    /\ Len(cards[1].Last.AO) = 4
    /\ Len(cards[1].Last.AOType) = 0
    /\ cards[1].Last.Error # ""


---------------------------------------------------------------------------
(* The window of a coalesced frame: manager.go, processBatchDO and
   processBatchAO, and the payload packBits makes of it *)

\* the two operations of the example: DO 0 and DO 3 of card 1 switched on
ExampleBatch == <<writeOperation(1, writeOpDO, 0, 1, ""), writeOperation(1, writeOpDO, 3, 1, "")>>

\* C27: the window of a WriteMultipleCoils or WriteMultipleRegisters frame
\* holds, at every index an op of its group targets, the value of the last
\* such op of the batch, and at every other index between the lowest and
\* the highest the cached value of the card (the zero value where the cache
\* is empty); with every cached DO off, DO 0 and DO 3 switched on give one
\* frame at address 0 of quantity 4 whose payload is the byte 2^0 + 2^3 = 9.
C27_WindowValues ==
    bpc = "done" =>
       /\ \A k \in 1..Len(frames) :
             LET f == frames[k]
                 t == IF f.fc = "WriteMultipleCoils" THEN writeOpDO ELSE writeOpAO
                 G == ToWrite(f.card, t)
                 minIdx == IF t = writeOpDO THEN f.addr ELSE f.addr \div 2
                 cached == IF t = writeOpDO THEN cards[f.card].Last.DO
                           ELSE cards[f.card].Last.AO
             IN  f.fc \in {"WriteMultipleCoils", "WriteMultipleRegisters"} =>
                   /\ Len(f.vals) = Max({batchOps[i].Index : i \in G}) - minIdx + 1
                   /\ minIdx = Min({batchOps[i].Index : i \in G})
                   /\ \A j \in 1..Len(f.vals) :
                         LET idx  == minIdx + j - 1
                             hits == {i \in G : batchOps[i].Index = idx}
                             op   == batchOps[Max(hits)]
                         IN  IF hits # {}
                             THEN f.vals[j] = (IF t = writeOpDO THEN op.Value # 0 ELSE op.Value)
                             ELSE IF idx < Len(cached) THEN f.vals[j] = cached[idx + 1]
                             ELSE f.vals[j] = (IF t = writeOpDO THEN FALSE ELSE 0)
       /\ (batchOps = ExampleBatch /\ cards[1].Last.DO = <<FALSE, FALSE, FALSE, FALSE>>) =>
             /\ Len(frames) = 1
             /\ frames[1].fc = "WriteMultipleCoils"
             /\ frames[1].addr = 0
             /\ frames[1].qty = 4
             /\ packBits(frames[1].vals) = <<9>>

\* C27 witness: the example has been written: every cached DO of card 1
\* off, DO 0 and DO 3 switched on, one frame with payload 9
C27_Witness ==
    /\ bpc = "done"
    /\ batchOps = ExampleBatch
    /\ cards[1].Last.DO = <<FALSE, FALSE, FALSE, FALSE>>
    /\ Len(frames) = 1
    /\ frames[1].vals = <<TRUE, FALSE, FALSE, TRUE>>
    /\ packBits(frames[1].vals) = <<9>>


---------------------------------------------------------------------------
(* The pace of the bus: port.go, the Modbus transactions and the
   time.Sleep(pc.operationDelay) calls of detectModel, readCard,
   writeMultipleDO and reboot, in the order they happen on one port *)

\* most port operations in one run
MaxPortOps == 2

\* what the port operations leave alone
delayRest == <<cards, ports, safeStateConfig, batchVars, frames, safeVars, writeQueue, dev,
               busVars, sched, http, tcpVars, afterReboot, pwq, processed, cycleVars,
               registryVars, sideVars>>

\* pc.mu.Lock() at the head of a port operation
Locked(what) == Event("lock", 0, 0, TRUE, what)

\* one Modbus transaction, answered or failed
Tx(fc, ok) == Event("tx", 0, 0, ok, fc)

\* time.Sleep(pc.operationDelay)
Sleep == Event("sleep", 0, 0, TRUE, "operationDelay")

\* a transaction followed by the sleep that is made only if err == nil
txThenSleepIfOk(fc, ok) == IF ok THEN <<Tx(fc, TRUE), Sleep>> ELSE <<Tx(fc, FALSE)>>

\* the function code of the sub-read of a kind
ReadFc == ("DI" :> "ReadDiscreteInputs" @@ "DO" :> "ReadCoils"
           @@ "AI" :> "ReadInputRegisters" @@ "AO" :> "ReadHoldingRegisters")

\* readCard: a sub-read that fails ends the call at once, one that succeeds
\* is followed by a sleep; the AO type read and the serial number and baud
\* rate reads are followed by a sleep whatever their outcome
readCardPace(spec, readAll, failAt, typeOk, infoOk) ==
    LET count == ("DI" :> spec.DI @@ "DO" :> spec.DO @@ "AI" :> spec.AI @@ "AO" :> spec.AO)
        failRank == IF failAt # "none" /\ count[failAt] > 0 THEN ReadRank[failAt] ELSE 5
        sub(kind) == IF count[kind] = 0 \/ ReadRank[kind] > failRank THEN <<>>
                     ELSE txThenSleepIfOk(ReadFc[kind], ReadRank[kind] < failRank)
    IN  sub("DI") \o sub("DO") \o sub("AI") \o sub("AO")
        \o (IF spec.AO > 0 /\ failRank = 5 /\ readAll
            THEN <<Tx("ReadHoldingRegisters", typeOk), Sleep>> ELSE <<>>)
        \o (IF failRank = 5 /\ readAll
            THEN <<Tx("ReadHoldingRegisters", infoOk), Sleep,
                   Tx("ReadHoldingRegisters", infoOk), Sleep>>
            ELSE <<>>)

\* whether the slave answers a probe request
probeAnswered(pr, req) ==
    CASE req.fc = "ReadDiscreteInputs" -> IF req.qty = 8 THEN pr.DI8 ELSE pr.DI4
      [] req.fc = "ReadCoils" -> IF req.qty = 8 THEN pr.DO8 ELSE pr.DO4
      [] req.fc = "ReadInputRegisters" -> pr.AI
      [] OTHER -> pr.AO

\* probeCounts: one request after the other, no sleep anywhere
probePace(pr) ==
    LET reqs == probeRequests(pr)
    IN  [i \in 1..Len(reqs) |-> Tx(reqs[i].fc, probeAnswered(pr, reqs[i]))]

\* the port operations begun so far
PortOps == SelectSeq(events, LAMBDA e : e.kind = "lock")

\* the transactions and sleeps on the port so far, in order
BusLog == SelectSeq(events, LAMBDA e : e.kind \in {"tx", "sleep"})

\* pc.readCard(slave, spec, readAll) for card c
PortReadCard(c) ==
    /\ Len(PortOps) < MaxPortOps
    /\ \E readAll \in BOOLEAN, failAt \in ReadFailures, typeOk \in BOOLEAN, infoOk \in BOOLEAN :
          events' = Append(events, Locked("readCard"))
                    \o readCardPace(ModelTable[cards[c].Module], readAll, failAt, typeOk, infoOk)
    /\ UNCHANGED delayRest

\* pc.writeMultipleDO(slave, startIndex, values)
PortWriteMultipleDO ==
    /\ Len(PortOps) < MaxPortOps
    /\ \E ok \in BOOLEAN :
          events' = Append(events, Locked("writeMultipleDO"))
                    \o txThenSleepIfOk("WriteMultipleCoils", ok)
    /\ UNCHANGED delayRest

\* pc.reboot(slave)
PortReboot ==
    /\ Len(PortOps) < MaxPortOps
    /\ \E ok \in BOOLEAN :
          events' = Append(events, Locked("reboot"))
                    \o txThenSleepIfOk("WriteSingleRegister", ok)
    /\ UNCHANGED delayRest

\* detectModel(pc, slave)
PortDetectModel ==
    /\ Len(PortOps) < MaxPortOps
    /\ \E pr \in AddProbes :
          events' = Append(events, Locked("detectModel")) \o probePace(pr)
    /\ UNCHANGED delayRest

NextDelay ==
    \/ \E c \in DOMAIN cards : PortReadCard(c)
    \/ PortWriteMultipleDO
    \/ PortReboot
    \/ PortDetectModel

SpecDelay == InitEnqueue /\ [][NextDelay]_vars

\* C28: between any two consecutive Modbus transactions on the port there is
\* an operationDelay sleep, whether the earlier one succeeded or failed and
\* whatever it was: a probe, a sub-read, a write or a reboot.
C28_SleepBetweenTransactions ==
    \A i \in 1..(Len(BusLog) - 1) :
       BusLog[i].kind = "tx" => BusLog[i + 1].kind = "sleep"


---------------------------------------------------------------------------
(* Starting and stopping the cycle: manager.go, the goroutine of StartCycle
   around ReadAllAndProcessWrites, and StopCycle *)

\* what the loop steps leave alone
stopRest == <<cards, writeQueue, dev, events, processed, cyc, stateChangeCallback,
              ports, safeStateConfig, batchVars, safeVars, busVars, sched, http,
              tcpVars, afterReboot, frames, pwq, registryVars, command, response, bw,
              rebootCall, managers, app, regMu, goroutines>>

\* a select that never takes the stop case
selectDefault(closed) == "run"

\* select { case <-m.stopChan: return; default: ... }: a closed channel is
\* ready, so its case is taken
selectStop(closed) == IF closed THEN "done" ELSE "run"

\* the goroutine of StartCycle at its select
LoopSelect ==
    /\ loop.pc = "select"
    /\ stopChan.closed \/ cyc.k < MaxCycles
    /\ loop' = [pc |-> selectStop(stopChan.closed), k |-> cyc.k]
    /\ UNCHANGED <<stopChan, stopRest>>

\* the default case: m.ReadAllAndProcessWrites() is called
LoopCycleBegin ==
    /\ loop.pc = "run"
    /\ cyc.k = loop.k
    /\ CycleBegin

\* ReadAllAndProcessWrites has returned; time.Sleep(m.cycleDelay), and back
\* to the select
LoopSleep ==
    /\ loop.pc = "run"
    /\ cyc.pc = "idle"
    /\ cyc.k > loop.k
    /\ loop' = [loop EXCEPT !.pc = "select"]
    /\ UNCHANGED <<stopChan, stopRest>>

\* StopCycle(): close(m.stopChan)
StopCycle ==
    /\ ~stopChan.closed
    /\ stopChan' = [closed |-> TRUE, k |-> IF loop.pc = "run" THEN loop.k + 1 ELSE 0]
    /\ UNCHANGED <<loop, stopRest>>

NextStop ==
    \/ LoopSelect
    \/ LoopCycleBegin
    \/ CycleVisit
    \/ CycleFlush
    \/ CycleEnd
    \/ LoopSleep
    \/ StopCycle

\* the goroutine is scheduled again and again, and each of its steps ends: a
\* Modbus request is answered or times out, the sleep is finite
LoopFairness ==
    /\ WF_vars(LoopSelect)
    /\ WF_vars(LoopCycleBegin)
    /\ WF_vars(CycleVisit)
    /\ WF_vars(CycleFlush)
    /\ WF_vars(CycleEnd)
    /\ WF_vars(LoopSleep)

SpecStop == InitCycle /\ [][NextStop]_vars /\ LoopFairness

\* C29: once StopCycle was called, the only scheduled reads are those of the
\* cycle in progress at the call (the loop iteration that had passed its
\* stop check), no further cycle begins, that cycle is completed and the
\* goroutine of StartCycle returns; after that nothing is read any more.
C29_StopsAfterCurrentCycle ==
    /\ [][stopChan.closed =>
            /\ (Len(events') > Len(events) /\ events'[Len(events')].kind = "read")
                  => events'[Len(events')].k = stopChan.k
            /\ cyc'.k # cyc.k => cyc'.k = stopChan.k
            /\ loop.pc = "done" => UNCHANGED <<loop, cyc, events, cards>>
        ]_vars
    /\ stopChan.closed ~> (loop.pc = "done" /\ cyc.pc = "idle")

\* C29 witness: StopCycle was called during the first iteration of the
\* loop; the cycle of that iteration has read both cards, and the goroutine
\* has returned without a second cycle
C29_Witness ==
    /\ stopChan.closed
    /\ stopChan.k = 1
    /\ loop.pc = "done"
    /\ cyc.k = 1
    /\ cyc.pc = "idle"
    /\ \E i \in 1..Len(events) : events[i].kind = "read" /\ events[i].card = 1
    /\ \E i \in 1..Len(events) : events[i].kind = "read" /\ events[i].card = 2


\* the cycle numbered k has read card c and has called ProcessWriteQueue
\* after that read
ReadAndDrained(c, k) ==
    \E r, f \in 1..Len(events) :
       /\ r < f
       /\ events[r].kind = "read" /\ events[r].card = c /\ events[r].k = k
       /\ events[f].kind = "flush" /\ events[f].card = c /\ events[f].k = k

\* the last thing that happened is a read that failed
JustFailed == JustRead /\ ~events[Len(events)].ok

\* C30: a failed read does not stop the scheduler: the cycle goes on to its
\* end, and at the end of every cycle each card of its snapshot has been
\* read in that cycle and the queue was drained after that read, whether the
\* reads failed or not and whether the card had failed in the cycle before.
C30_FailureDoesNotStopCycle ==
    /\ [](cyc.pc = "end" => \A i \in 1..Len(cyc.cards) : ReadAndDrained(cyc.cards[i], cyc.k))
    /\ JustFailed ~> (cyc.pc = "end")

\* C30 witness: the read of card 1 failed in the first cycle, card 2 was
\* read after it in that cycle, and the second cycle has read card 1 again
\* and is at its end
C30_Witness ==
    /\ cyc.pc = "end"
    /\ cyc.k = 2
    /\ \E r, s \in 1..Len(events) :
          /\ r < s
          /\ events[r].kind = "read" /\ events[r].card = 1 /\ events[r].k = 1 /\ ~events[r].ok
          /\ events[s].kind = "read" /\ events[s].card = 2 /\ events[s].k = 1
    /\ ReadAndDrained(1, 2)
    /\ ReadAndDrained(2, 2)


---------------------------------------------------------------------------
(* RebootCard step by step: manager.go, RebootCard, its critical section
   and then portClient.reboot of port.go, while the cycle reads the card *)

\* most RebootCard calls in one run
MaxReboots == 2

\* the ids RebootCard is called with: card 1 is registered, 2 is not
RebootIds == {1, 2}

\* what RebootCard leaves alone
rebootRest == <<dev, events, adders, ports, safeStateConfig, batchVars, safeVars,
                writeQueue, busVars, sched, http, tcpVars, afterReboot, pwq, processed,
                cycleVars, nextID, command, response, bw, loop, stopChan, managers, app, regMu, goroutines>>

\* RebootCard(id) up to m.mu.Unlock(): the lookup, and the flag if the card
\* is there; without it the call returns "card not found"
RebootCardLock(id) ==
    /\ rebootCall.pc = "idle"
    /\ rebootCall.n < MaxReboots
    /\ LET r == rebootCard(cards, id, TRUE)
       IN  /\ cards' = r.cards
           /\ rebootCall' =
                 IF r.err # ""
                 THEN [RebootIdle EXCEPT !.id = id, !.err = r.err, !.n = rebootCall.n + 1]
                 ELSE [pc |-> "port", id |-> id, slave |-> cards[id].SlaveID, err |-> "",
                       n |-> rebootCall.n + 1]
    /\ UNCHANGED <<frames, rebootRest>>

\* ensurePort finds the port and pc.reboot(c.SlaveID) sends the register
\* write; its error is what RebootCard returns
RebootCardSend ==
    /\ rebootCall.pc = "port"
    /\ \E ok \in BOOLEAN :
          LET r == rebootCard(cards, rebootCall.id, ok)
          IN  /\ frames' = frames \o r.frames
              /\ rebootCall' = [rebootCall EXCEPT !.pc = "idle", !.err = r.err]
    /\ UNCHANGED <<cards, rebootRest>>

NextReboot ==
    \/ \E id \in RebootIds : RebootCardLock(id)
    \/ RebootCardSend
    \/ RegistrationRead("a")
    \/ ScheduledRead(1)

SpecReboot == InitRead /\ [][NextReboot]_vars

\* f is the frame of portClient.reboot for the slave
RebootFrameTo(f, slave) ==
    /\ f.fc = "WriteSingleRegister"
    /\ f.slave = slave
    /\ f.addr = 16
    /\ f.vals = <<65280>>

---------------------------------------------------------------------------
(* The flag needsFullRead and the outcome of readCard, checked under
   SpecRead: manager.go, AddCard, ReadAllAndProcessWrites, RefreshAll and
   RebootCard; port.go, readCard *)

\* C32: a card's needsFullRead is set from its registration until its first
\* full read (a card whose AddCard has returned without any read having
\* succeeded has the flag set), and the flag goes from set to clear only in
\* a step that stores a successful read of the card.
C32_FlagUntilFullRead ==
    /\ []((adders["a"].pc = "idle" /\ ~HadRead) => cards[1].needsFullRead)
    /\ [][(cards[1].needsFullRead /\ ~cards'[1].needsFullRead) =>
             (cards'[1].Last.Error = "" /\ HadRead')]_vars

\* the state holds what a full read of image img gives for the model spec
\* when every sub-read succeeds
CompleteRead(state, spec, img) ==
    /\ Len(state.AOType) = spec.AO
    /\ state.SerialNumber = img.sn
    /\ state.BaudRate = img.baud

\* C33: readCard fails as a whole when one of its sub-reads fails, on a full
\* read the AO type, serial number and baud rate sub-reads included, and
\* nothing of a failed call is stored: whenever a full read changes the
\* stored state of the card to one without error, that state holds the
\* result of every sub-read, and a read that fails changes nothing of the
\* stored state but its Error.
C33_ReadAllOrNothing ==
    [][LET full == adders["a"].pc = "read" \/ cards[1].needsFullRead
           last == cards[1].Last
       IN  /\ (cards'[1].Last # last /\ cards'[1].Last.Error = "" /\ full) =>
                 CompleteRead(cards'[1].Last, ModelTable[cards[1].Module], dev[1])
           /\ cards'[1].Last.Error # "" => cards'[1].Last = [last EXCEPT !.Error = BusErr]
      ]_vars


---------------------------------------------------------------------------
(* What the outputs of the devices hold over a run of batch writes,
   safe-state writes and reads: manager.go, ProcessBatchWrite (called by
   the TCP server and by ProcessWriteQueue), WriteAllOutputsToSafeState and
   the loop body of ReadAllAndProcessWrites.  A device keeps the last value
   written to it; none of the writes touches c.Last, only a read does *)

\* what the writes and reads leave alone
deviceRest == <<ports, safeStateConfig, safeVars, writeQueue, busVars, sched, http,
                tcpVars, afterReboot, auxVars>>

\* the batches of the callers: an output of card 1 or 2 alone, switched on
\* or off, and the outputs on both sides of it together
DeviceBatches ==
    { <<writeOperation(1, writeOpDO, 1, 1, "")>>,
      <<writeOperation(1, writeOpDO, 1, 0, "")>>,
      <<writeOperation(1, writeOpDO, 0, 1, ""), writeOperation(1, writeOpDO, 2, 1, "")>>,
      <<writeOperation(2, writeOpAO, 1, 4000, "")>>,
      <<writeOperation(2, writeOpAO, 0, 4000, ""), writeOperation(2, writeOpAO, 2, 4000, "")>> }

\* ProcessBatchWrite(ops) is called
DeviceCall ==
    /\ bpc \in {"idle", "done"}
    /\ batchOps' \in DeviceBatches
    /\ results' = <<>>
    /\ frames' = <<>>
    /\ bpc' = "call"
    /\ UNCHANGED <<cards, dev, deviceRest>>

\* ProcessBatchWrite runs and returns: the devices take the frames that
\* succeeded
DeviceBatchWrite ==
    /\ bpc = "call"
    /\ \E order \in GroupOrders(cards, batchOps),
          fail \in SUBSET (1..Len(validOpsOf(cards, batchOps))) :
          LET out == ProcessBatchWrite(cards, batchOps, order, fail)
          IN  /\ results' = out.results
              /\ frames' = out.frames
              /\ dev' = applyFrames(dev, out.frames)
    /\ bpc' = "done"
    /\ UNCHANGED <<cards, batchOps, deviceRest>>

\* the loop body of ReadAllAndProcessWrites reads card c into c.Last
DeviceRead(c) ==
    /\ bpc # "call"
    /\ \E ok \in BOOLEAN :
          LET readAll == cards[c].needsFullRead
          IN  cards' = [cards EXCEPT
                          ![c].Last = mergeRead(@, readCard(dev[c], readAll), ok, readAll),
                          ![c].needsFullRead = FALSE]
    /\ UNCHANGED <<dev, batchVars, frames, deviceRest>>

\* WriteAllOutputsToSafeState runs and returns
DeviceSafeState ==
    /\ bpc # "call"
    /\ \E order \in Orderings(DOMAIN cards),
          fail \in SUBSET (1..Cardinality(DOMAIN cards)) :
          LET out == WriteAllOutputsToSafeState(cards, safeStateConfig, ports, TRUE,
                                                order, fail)
          IN  dev' = applyFrames(dev, out.frames)
    /\ UNCHANGED <<cards, batchVars, frames, deviceRest>>

NextDevice ==
    \/ DeviceCall
    \/ DeviceBatchWrite
    \/ \E c \in DOMAIN cards : DeviceRead(c)
    \/ DeviceSafeState

SpecDevice == InitCommand /\ [][NextDevice]_vars

\* the step in which a ProcessBatchWrite call runs
BatchStep == bpc = "call" /\ bpc' = "done"

\* an op of the batch targets output idx (from 0) of kind type of card c
Targets(ops, c, type, idx) ==
    \E i \in 1..Len(ops) : ops[i].CardID = c /\ ops[i].Type = type /\ ops[i].Index = idx

\* C34: a batch write never changes the device value of an output channel
\* that no op of the batch targets, whatever was written and read before.
C34_UntargetedOutputsKept ==
    [][BatchStep =>
          \A c \in DOMAIN cards :
             /\ \A i \in 1..Len(dev[c].DO) :
                   ~Targets(batchOps, c, writeOpDO, i - 1) => dev'[c].DO[i] = dev[c].DO[i]
             /\ \A i \in 1..Len(dev[c].AO) :
                   ~Targets(batchOps, c, writeOpAO, i - 1) => dev'[c].AO[i] = dev[c].AO[i]
      ]_vars

\* C35: an op that ProcessBatchWrite reports as "value unchanged, skipped"
\* asks for the value its output holds on the device when the call is made.
C35_SkippedMeansDeviceHasValue ==
    [][BatchStep =>
          \A i \in 1..Len(results') :
             results'[i].Message = "value unchanged, skipped" =>
                LET op == batchOps[i]
                IN  IF op.Type = writeOpDO
                    THEN dev[op.CardID].DO[op.Index + 1] = (op.Value # 0)
                    ELSE dev[op.CardID].AO[op.Index + 1] = op.Value
      ]_vars


---------------------------------------------------------------------------
(* One peer after another: tcp_server.go, acceptLoop and handleClient with
   its deferred safe state, and the write commands of the peer that is
   connected (processWriteCommand, ProcessBatchWrite), every frame taking
   the port *)

\* most TCP connections made in a run of this specification
MaxPeers == 2

\* what a write command of a peer leaves alone
peerRest == <<cards, callVars, writeQueue, sched, http, clientConn, stopped, safeCalls,
              afterReboot>>

\* the write commands of a peer: DO 0 or DO 1 of card 1 switched on
PeerOps == {writeOperation(1, writeOpDO, i, 1, "") : i \in {0, 1}}

\* handleClient of session s has read a write command; ProcessBatchWrite
\* finds the value changed and writeMultipleDO takes the port
PeerWriteBegin(s) ==
    /\ sessions[s].st = "open"
    /\ \E op \in PeerOps :
          LET fs == ProcessBatchWrite(cards, <<op>>, <<GroupKey(op)>>, {}).frames
          IN  /\ fs # <<>>
              /\ portBegin(TcpProc(s), fs[1].slave)
              /\ sessions' = [sessions EXCEPT ![s].st = "writing", ![s].frame = fs]
    /\ UNCHANGED <<dev, peerRest>>

\* the write returns, the response goes to the peer and handleClient waits
\* for the next line
PeerWriteEnd(s) ==
    /\ sessions[s].st = "writing"
    /\ portEnd(TcpProc(s))
    /\ \E ok \in BOOLEAN :
          LET f == sessions[s].frame[1]
          IN  dev' = IF ok THEN [dev EXCEPT ![f.card] = applyFrame(@, f)] ELSE dev
    /\ sessions' = [sessions EXCEPT ![s].st = "open", ![s].frame = <<>>]
    /\ UNCHANGED peerRest

\* the manager with the two cards of Init, the server listening, no peer yet
InitPeers ==
    /\ cards = ( 1 :> Card(1, 1, "IO4040", RunDevices[1], FALSE)
              @@ 2 :> Card(2, 3, "IO8000", RunDevices[2], FALSE) )
    /\ ports = {"/dev/ttyS7"}
    /\ safeStateConfig = DefaultSafeStateConfig
    /\ batchOps = <<>>
    /\ results = <<>>
    /\ frames = <<>>
    /\ bpc = "idle"
    /\ spc = "idle"
    /\ safeErr = NoErr
    /\ dev = [c \in DOMAIN cards |-> cards[c].Last]
    /\ writeQueue = <<>>
    /\ portMu = NoProc
    /\ handlerSlave = 5
    /\ wire = {}
    /\ sched = SchedIdle
    /\ http = HttpIdle
    /\ clientConn = NoConn
    /\ stopped = FALSE
    /\ sessions = [s \in 1..MaxPeers |-> NoSession]
    /\ safeCalls = [s \in 1..MaxPeers |-> 0]
    /\ afterReboot = [c \in DOMAIN cards |-> "none"]
    /\ pwq = [p \in Drainers |-> DrainerIdle]
    /\ events = <<>>
    /\ processed = <<>>
    /\ cyc = CycIdle
    /\ stateChangeCallback = FALSE
    /\ nextID = 3
    /\ adders = [p \in AddCallers |-> AdderIdle]
    /\ command = NoCommand
    /\ response = NoResponse
    /\ bw = NoBatch
    /\ loop = LoopStart
    /\ stopChan = StopOpen
    /\ rebootCall = RebootIdle
    /\ managers = StartManagers
    /\ app = AppStart
    /\ regMu = NoProc
    /\ goroutines = GoIdle

NextPeers ==
    \/ TcpAccept
    \/ \E s \in 1..MaxPeers :
          \/ PeerClose(s)
          \/ HandleClientExit(s)
          \/ SafeStateCall(s)
          \/ SafeWriteBegin(s)
          \/ SafeWriteEnd(s)
          \/ PeerWriteBegin(s)
          \/ PeerWriteEnd(s)

SpecPeers == InitPeers /\ [][NextPeers]_vars

\* the safe state that the disconnect of session s asked for is not
\* finished: a call or a frame of it is still to come
SafeStatePending(s) == sessions[s].st \in {"safecall", "safe", "safewrite"}

\* C36: while a write command of a peer is on the bus, no safe state
\* triggered by the disconnect of an earlier peer is unfinished: every frame
\* of that safe state went out before.
C36_SafeStateBeforeNextPeer ==
    \A s, t \in DOMAIN sessions :
       (s < t /\ sessions[t].st = "writing") => ~SafeStatePending(s)


---------------------------------------------------------------------------
(* Rediscover with a peer connected: main.go, NewApp and the rediscover
   handler; index.go, InitializeManager; manager.go, NewManager, ensurePort,
   StartCycle, StopCycle, RefreshAll; tcp_server.go, NewTCPServer and the
   manager the server calls.  Every Manager has its own ports map, so its own
   portClient and mutex for the one serial path *)

\* what these steps leave alone
rediscoverRest == <<mgrVars, batchVars, frames, safeVars, writeQueue, dev, portMu,
                    handlerSlave, sched, http, tcpVars, afterReboot, queueVars, cycleVars,
                    registryVars, command, response, bw, loop, stopChan, rebootCall,
                    regMu, goroutines>>

\* the slaves that answer on /dev/ttyS7, with their models
BusSlaves == (1 :> "IO4040" @@ 3 :> "IO8000")

\* a portClient operation of manager i begins: pc.mu.Lock() returns and the
\* request for the slave goes out on the path
mgrPortBegin(i, p, slave) ==
    /\ managers[i].mu = NoProc
    /\ wire' = wire \cup {[proc |-> p, slave |-> slave, mgr |-> i]}

\* the answer or the timeout is in, pc.mu.Unlock()
mgrPortEnd(i, p) == wire' = {r \in wire : ~(r.proc = p /\ r.mgr = i)}

\* the goroutine of StartCycle of manager i: stopChan is open, the cycle
\* reads a card
MgrCycleReadBegin(i) ==
    /\ managers[i].cycle = "select"
    /\ ~managers[i].stopChan
    /\ \E c \in DOMAIN managers[i].cards :
          mgrPortBegin(i, Proc("cycle", i), managers[i].cards[c].SlaveID)
    /\ managers' = [managers EXCEPT ![i].cycle = "read", ![i].mu = Proc("cycle", i)]
    /\ UNCHANGED <<app, rediscoverRest>>

\* the read returns; when a DI or AI has changed the callback of this
\* manager is called if one is set, and the server sends the update
MgrCycleReadEnd(i) ==
    /\ managers[i].cycle = "read"
    /\ mgrPortEnd(i, Proc("cycle", i))
    /\ managers' = [managers EXCEPT ![i].cycle = "select", ![i].mu = NoProc]
    /\ \E changed \in BOOLEAN :
          app' = IF changed /\ i = app.localioMgr
                 THEN [app EXCEPT !.change = IF managers[i].stateChangeCallback
                                              THEN "sent" ELSE "lost"]
                 ELSE app
    /\ UNCHANGED rediscoverRest

\* the goroutine finds stopChan closed and returns
MgrCycleReturn(i) ==
    /\ managers[i].cycle = "select"
    /\ managers[i].stopChan
    /\ managers' = [managers EXCEPT ![i].cycle = "done"]
    /\ UNCHANGED <<wire, app, rediscoverRest>>

\* POST /rediscover: app.localioMgr.StopCycle()
RediscoverStop ==
    /\ app.pc = "idle"
    /\ app.n < MaxRediscover
    /\ managers' = [managers EXCEPT ![app.localioMgr].stopChan = TRUE]
    /\ app' = [app EXCEPT !.pc = "new", !.n = @ + 1]
    /\ UNCHANGED <<wire, rediscoverRest>>

\* InitializeManager: NewManager()
RediscoverNewManager ==
    /\ app.pc = "new"
    /\ managers' = Append(managers, Manager(<<>>, FALSE, "none", FALSE))
    /\ app' = [app EXCEPT !.pc = "add", !.sid = 1]
    /\ UNCHANGED <<wire, rediscoverRest>>

\* InitializeManager: AddCard(path, sid, "") of the new manager: ensurePort
\* (the first call opens the path again; AddCard returns when that fails),
\* then detectModel takes the new portClient
RediscoverAddCardBegin ==
    /\ app.pc = "add"
    /\ app.sid <= maxSlave
    /\ LET new == Len(managers)
       IN  \E connectOk \in (IF managers[new].port THEN {TRUE} ELSE BOOLEAN) :
              IF connectOk
              THEN /\ mgrPortBegin(new, HttpProc, app.sid)
                   /\ managers' = [managers EXCEPT ![new].port = TRUE, ![new].mu = HttpProc]
                   /\ app' = [app EXCEPT !.pc = "adding"]
              ELSE /\ app' = [app EXCEPT !.sid = @ + 1]
                   /\ UNCHANGED <<managers, wire>>
    /\ UNCHANGED rediscoverRest

\* the probes and the full read are over: a slave that answered is put in
\* the registry of the new manager
RediscoverAddCardEnd ==
    /\ app.pc = "adding"
    /\ LET new == Len(managers)
           reg == managers[new].cards
           id  == Cardinality(DOMAIN reg) + 1
       IN  /\ mgrPortEnd(new, HttpProc)
           /\ managers' = [managers EXCEPT
                 ![new].mu = NoProc,
                 ![new].cards =
                     IF app.sid \in DOMAIN BusSlaves
                     THEN putCard(reg, id, Card(id, app.sid, BusSlaves[app.sid],
                                                fullState(ModelTable[BusSlaves[app.sid]]), FALSE))
                     ELSE reg]
    /\ app' = [app EXCEPT !.pc = "add", !.sid = @ + 1]
    /\ UNCHANGED rediscoverRest

\* InitializeManager returns: StartCycle if a card was discovered; the
\* handler stores the new manager in app.localioMgr and calls RefreshAll
RediscoverAssign ==
    /\ app.pc = "add"
    /\ app.sid > maxSlave
    /\ LET new == Len(managers)
       IN  /\ managers' = [managers EXCEPT ![new].cycle =
                              IF DOMAIN managers[new].cards # {} THEN "select" ELSE "none"]
           /\ app' = [app EXCEPT !.localioMgr = new, !.pc = "refresh", !.sid = 1]
    /\ UNCHANGED <<wire, rediscoverRest>>

\* RefreshAll reads the next card of the new manager, or is through and the
\* handler answers
RediscoverRefreshBegin ==
    /\ app.pc = "refresh"
    /\ LET reg == managers[app.localioMgr].cards
       IN  IF app.sid \in DOMAIN reg
           THEN /\ mgrPortBegin(app.localioMgr, HttpProc, reg[app.sid].SlaveID)
                /\ managers' = [managers EXCEPT ![app.localioMgr].mu = HttpProc]
                /\ app' = [app EXCEPT !.pc = "refreshing"]
           ELSE /\ app' = [app EXCEPT !.pc = "idle", !.sid = 0]
                /\ UNCHANGED <<managers, wire>>
    /\ UNCHANGED rediscoverRest

\* the read of RefreshAll returns
RediscoverRefreshEnd ==
    /\ app.pc = "refreshing"
    /\ mgrPortEnd(app.localioMgr, HttpProc)
    /\ managers' = [managers EXCEPT ![app.localioMgr].mu = NoProc]
    /\ app' = [app EXCEPT !.pc = "refresh", !.sid = @ + 1]
    /\ UNCHANGED rediscoverRest

\* processWriteCommand of the connected peer: s.localioMgr.ProcessBatchWrite
\* finds the value changed and the write takes the port of that manager
TcpBatchBegin ==
    /\ app.peer = "idle"
    /\ \E op \in PeerOps :
          LET fs == ProcessBatchWrite(managers[app.tcpMgr].cards, <<op>>,
                                      <<GroupKey(op)>>, {}).frames
          IN  /\ fs # <<>>
              /\ mgrPortBegin(app.tcpMgr, TcpProc(1), fs[1].slave)
    /\ managers' = [managers EXCEPT ![app.tcpMgr].mu = TcpProc(1)]
    /\ app' = [app EXCEPT !.peer = "writing"]
    /\ UNCHANGED rediscoverRest

\* the write returns and the response goes to the peer
TcpBatchEnd ==
    /\ app.peer = "writing"
    /\ mgrPortEnd(app.tcpMgr, TcpProc(1))
    /\ managers' = [managers EXCEPT ![app.tcpMgr].mu = NoProc]
    /\ app' = [app EXCEPT !.peer = "idle"]
    /\ UNCHANGED rediscoverRest

NextRediscover ==
    \/ \E i \in 1..Len(managers) :
          \/ MgrCycleReadBegin(i)
          \/ MgrCycleReadEnd(i)
          \/ MgrCycleReturn(i)
    \/ RediscoverStop
    \/ RediscoverNewManager
    \/ RediscoverAddCardBegin
    \/ RediscoverAddCardEnd
    \/ RediscoverAssign
    \/ RediscoverRefreshBegin
    \/ RediscoverRefreshEnd
    \/ TcpBatchBegin
    \/ TcpBatchEnd

SpecRediscover == Init /\ [][NextRediscover]_vars

\* C37: the TCP server acts on the manager the application holds, also
\* after a rediscover: its batch writes, reboots, updates and safe state go
\* to that manager, its callback is set on that manager, and no input change
\* the cycle of that manager saw was lost for the peer.
C37_ServerFollowsManager ==
    /\ app.tcpMgr = app.localioMgr
    /\ managers[app.localioMgr].stateChangeCallback
    /\ app.change # "lost"

\* C38: at most one Modbus transaction is outstanding on the serial path,
\* whichever manager it belongs to, during and after a rediscover.
C38_OneTransactionOnPath == Cardinality(wire) <= 1


\* ---------------------------------------------------------------------
\* The two mutexes: Manager.mu and portClient.mu
\* ---------------------------------------------------------------------

lockRest == <<cards, ports, safeStateConfig, batchOps, results, frames, bpc, spc, safeErr,
              writeQueue, dev, handlerSlave, wire, sched, http,
              clientConn, stopped, sessions, safeCalls, afterReboot,
              pwq, events, processed, cyc, stateChangeCallback, nextID, adders,
              command, response, bw, loop, stopChan, rebootCall, managers, app>>

\* one critical section of a mutex: Lock() ... Unlock()
section(x) == <<[do |-> "lock", mu |-> x], [do |-> "unlock", mu |-> x]>>

\* the call of the state-change callback (manager.go 393)
callbackCall == <<[do |-> "callback", mu |-> ""]>>

\* RebootCard keeping Manager.mu until pc.reboot has returned
RebootCardLocksNested ==
    <<[do |-> "lock", mu |-> "m"]>> \o section("pc") \o <<[do |-> "unlock", mu |-> "m"]>>

\* RebootCard: the card is looked up under Manager.mu, ensurePort takes
\* Manager.mu again, pc.reboot takes the port's mutex
RebootCardLocks ==
    section("m")                                                   \* 551-560
    \o section("m")                                                \* 562 ensurePort
    \o section("pc")                                               \* 567 pc.reboot

\* What an operation does with the two mutexes, in program order, for one
\* card that has DO and AO and one operation in the queue or batch:
\* "m" is Manager.mu, "pc" the mutex of the card's portClient.
lockProgram(op) ==
    CASE op = "GetAllCards" -> section("m")                        \* 300-305
      [] op = "RemoveCard" -> section("m")                         \* 232-233
      [] op = "QueueWriteDO" ->
            section("m")                                           \* 449 GetCard
            \o section("m")                                        \* 459-460
      [] op = "RebootCard" -> RebootCardLocks
      [] op = "ProcessBatchWrite" ->
            section("m")                                           \* 647 GetCard
            \o section("m")                                        \* 739 GetCard
            \o section("m")                                        \* 753 ensurePort
            \o section("pc")                                       \* 817 writeMultipleDO
      [] op = "WriteAllOutputsToSafeState" ->
            section("m")                                           \* 923-929
            \o section("m")                                        \* 936 ensurePort
            \o section("pc")                                       \* 951 writeMultipleDO
            \o section("m")                                        \* 965-967
            \o section("pc")                                       \* 982 writeMultipleAO
      [] op = "ReadAllAndProcessWrites" ->
            section("m")                                           \* 320-325
            \o section("m")                                        \* 339-341
            \o section("m")                                        \* 353-359
            \o section("pc")                                       \* 361 readCard
            \o section("m")                                        \* 382: 528-532
            \o section("m") \o section("m") \o section("m")        \* 539: 647, 739, 753
            \o section("pc")                                       \* 817
            \o section("m")                                        \* 387-389
            \o section("m")                                        \* 392 GetAllCards
            \o callbackCall                                        \* 393
            \o section("m")                                        \* the callback's GetAllCards
      [] OTHER -> <<>>

\* the operations each goroutine runs: the scheduler's cycle; the TCP
\* peer's batch, reboot and the safe state at its disconnect; the HTTP
\* handlers
GoOps(t) ==
    CASE t = SchedProc -> {"ReadAllAndProcessWrites"}
      [] t = TcpProc(1) -> {"ProcessBatchWrite", "RebootCard", "WriteAllOutputsToSafeState"}
      [] OTHER -> {"GetAllCards", "RemoveCard", "QueueWriteDO", "RebootCard"}

\* the step goroutine t is at, and the mutex it names
GoAt(t) == lockProgram(goroutines[t].op)[goroutines[t].at]
GoInside(t) ==
    goroutines[t].at \in 1..Len(lockProgram(goroutines[t].op))
GoHolder(x) == IF x = "m" THEN regMu ELSE portMu

GoAdvance(t) ==
    goroutines' = [goroutines EXCEPT ![t].at = @ + 1]

\* a goroutine enters an operation
GoCall(t, op) ==
    /\ goroutines[t].at = 0
    /\ goroutines' = [goroutines EXCEPT ![t] = [op |-> op, at |-> 1]]
    /\ UNCHANGED <<regMu, portMu, lockRest>>

\* sync.Mutex.Lock: blocks while another goroutine, or the caller itself,
\* holds the mutex
GoLock(t) ==
    /\ GoInside(t)
    /\ GoAt(t).do = "lock"
    /\ GoHolder(GoAt(t).mu) = NoProc
    /\ IF GoAt(t).mu = "m"
       THEN regMu' = t /\ UNCHANGED portMu
       ELSE portMu' = t /\ UNCHANGED regMu
    /\ GoAdvance(t)
    /\ UNCHANGED lockRest

\* sync.Mutex.Unlock
GoUnlock(t) ==
    /\ GoInside(t)
    /\ GoAt(t).do = "unlock"
    /\ IF GoAt(t).mu = "m"
       THEN regMu' = NoProc /\ UNCHANGED portMu
       ELSE portMu' = NoProc /\ UNCHANGED regMu
    /\ GoAdvance(t)
    /\ UNCHANGED lockRest

\* callback(callbackCards)
GoCallback(t) ==
    /\ GoInside(t)
    /\ GoAt(t).do = "callback"
    /\ GoAdvance(t)
    /\ UNCHANGED <<regMu, portMu, lockRest>>

\* the operation returns
GoReturn(t) ==
    /\ goroutines[t].at = Len(lockProgram(goroutines[t].op)) + 1
    /\ goroutines' = [goroutines EXCEPT ![t] = [op |-> "", at |-> 0]]
    /\ UNCHANGED <<regMu, portMu, lockRest>>

NextLocks ==
    \/ \E t \in GoProcs : \E op \in GoOps(t) : GoCall(t, op)
    \/ \E t \in GoProcs : GoLock(t)
    \/ \E t \in GoProcs : GoUnlock(t)
    \/ \E t \in GoProcs : GoCallback(t)
    \/ \E t \in GoProcs : GoReturn(t)

SpecLocks == Init /\ [][NextLocks]_vars

\* goroutine t holds mutex x
GoHolds(t, x) == GoHolder(x) = t

\* goroutine t can take its next step
GoCanStep(t) ==
    GoInside(t) => (GoAt(t).do = "lock" => GoHolder(GoAt(t).mu) = NoProc)

\* C39: a goroutine that is about to lock Manager.mu or a portClient.mu,
\* or to call the state-change callback, holds neither of the two, and in
\* no state are all the goroutines that are inside an operation blocked.
C39_NoNestedLocks ==
    /\ \A t \in GoProcs :
          (GoInside(t) /\ GoAt(t).do \in {"lock", "callback"})
              => (~GoHolds(t, "m") /\ ~GoHolds(t, "pc"))
    /\ (\E t \in GoProcs : goroutines[t].at > 0)
          => \E t \in GoProcs : goroutines[t].at > 0 /\ GoCanStep(t)

\* C39 witness: the cycle is about to call the callback while the TCP
\* peer's batch holds the port mutex and an HTTP handler holds Manager.mu
C39_Witness ==
    /\ GoInside(SchedProc) /\ GoAt(SchedProc).do = "callback"
    /\ portMu = TcpProc(1) /\ goroutines[TcpProc(1)].op = "ProcessBatchWrite"
    /\ regMu = HttpProc


\* ---------------------------------------------------------------------
\* The queue while cards are removed: manager.go, the cycles of StartCycle
\* one after another, QueueWrite* and RemoveCard between their steps
\* ---------------------------------------------------------------------

\* most operations accepted into the queue in one run
MaxDrainWrites == 1

\* what the steps below leave alone
drainRest == <<cycleRest, events, stateChangeCallback>>

\* the operations queued: DO 0 or DO 1 on
DrainOps(cardID) == {writeOperation(cardID, writeOpDO, i, 1, "") : i \in {0, 1}}

\* the ticker of StartCycle calls ReadAllAndProcessWrites: the snapshot of
\* the registry, sorted; with no card the loop body is never entered
DrainBegin ==
    /\ cyc.pc = "idle"
    /\ cyc' = [cyc EXCEPT !.pc = IF DOMAIN cards = {} THEN "end" ELSE "visit",
                          !.cards = SortedIds(DOMAIN cards), !.idx = 1,
                          !.hasStateChange = FALSE]
    /\ UNCHANGED <<cards, writeQueue, dev, processed, drainRest>>

\* the loop body up to ProcessWriteQueue, for a card of the snapshot (the
\* Card is written to also when RemoveCard has taken it out of the map)
DrainVisit ==
    /\ cyc.pc = "visit"
    /\ \E ok \in BOOLEAN :
          LET c == cycCard
          IN  /\ cards' = IF c \in DOMAIN cards
                          THEN [cards EXCEPT
                                  ![c].Last = mergeRead(cards[c].Last,
                                                        readCard(dev[c], cards[c].needsFullRead),
                                                        ok, cards[c].needsFullRead),
                                  ![c].needsFullRead = FALSE]
                          ELSE cards
              /\ cyc' = [cyc EXCEPT !.pc = afterRead(ok)]
    /\ UNCHANGED <<writeQueue, dev, processed, drainRest>>

\* ProcessWriteQueue at the end of the loop body (382)
DrainFlush ==
    /\ cyc.pc = "flush"
    /\ LET t == takeQueue(writeQueue)
       IN  /\ writeQueue' = t.writeQueue
           /\ processed' = processed \o t.queue
           /\ \E order \in GroupOrders(cards, t.queue) :
                 dev' = applyFrames(dev, ProcessBatchWrite(cards, t.queue, order, {}).frames)
    /\ cyc' = IF cyc.idx < Len(cyc.cards) THEN [cyc EXCEPT !.pc = "visit", !.idx = @ + 1]
              ELSE [cyc EXCEPT !.pc = "end"]
    /\ UNCHANGED <<cards, drainRest>>

\* ReadAllAndProcessWrites returns; the sleep, then the next tick
DrainEnd ==
    /\ cyc.pc = "end"
    /\ cyc' = [CycIdle EXCEPT !.k = cyc.k]
    /\ UNCHANGED <<cards, writeQueue, dev, processed, drainRest>>

\* QueueWriteDO / QueueWriteAO returning nil: the op is appended
DrainQueue(op) ==
    /\ Len(processed) + Len(writeQueue) < MaxDrainWrites
    /\ queueCheck(cards, op) = ""
    /\ writeQueue' = Append(writeQueue, op)
    /\ UNCHANGED <<cards, dev, processed, cyc, drainRest>>

\* RemoveCard(id): delete(m.cards, id)
DrainRemove(id) ==
    /\ id \in DOMAIN cards
    /\ cards' = [c \in DOMAIN cards \ {id} |-> cards[c]]
    /\ UNCHANGED <<writeQueue, dev, processed, cyc, drainRest>>

NextDrain ==
    \/ DrainBegin
    \/ DrainVisit
    \/ DrainFlush
    \/ DrainEnd
    \/ \E cardID \in 1..2 : \E op \in DrainOps(cardID) : DrainQueue(op)
    \/ \E id \in 1..2 : DrainRemove(id)

\* the goroutine of StartCycle is scheduled again and again and each step
\* of a cycle ends
DrainFairness ==
    /\ WF_vars(DrainBegin)
    /\ WF_vars(DrainVisit)
    /\ WF_vars(DrainFlush)
    /\ WF_vars(DrainEnd)

SpecDrain == InitCycle /\ [][NextDrain]_vars /\ DrainFairness

\* C40: with the scheduler running, an operation that was accepted into
\* the queue is eventually taken out of it and handed to batch processing,
\* whatever cards are removed afterwards.
C40_QueuedEventuallyDrained ==
    \A n \in 1..MaxDrainWrites :
        (Len(processed) + Len(writeQueue) >= n) ~> (Len(processed) >= n)


=============================================================================
